---------------------------- MODULE Spec2Model ----------------------------
(***************************************************************************)
(* Model of the real-time chat / notification synchronisation logic of the *)
(* aqar front-end: the notification store (NotificationContext), the chat  *)
(* list, message stream and conversation bootstrap of pages/Messages.tsx.  *)
(* The backend (Firestore) is a set of document collections; every client  *)
(* write is an independent request that is applied or rejected some time   *)
(* after it was issued; live queries are delivered as whole snapshots.     *)
(***************************************************************************)
EXTENDS Integers, Sequences, FiniteSets, TLC

(***************************************************************************)
(* Bounds of the model.                                                    *)
(***************************************************************************)
MaxNotifs == 2
MaxParticipants == 3
MaxSnap == 2
MaxChats == 2
MaxMsgs == 2
MaxCalls == 2
MaxInquiries == 2
MaxChanges == 2
MaxTx == 2
MaxUpdates == 3

NoUser == "none"
Users == {"u1", "u2"}
Me == "u1"
\* the categories this code base ever writes: "message" (Messages.tsx:296)
\* and "property" (Profile.tsx:900, 913)
NotifTypes == {"message", "property"}

VARIABLES
    \* ---- notification store (NotificationContext) ----
    user,           \* useAuth().user of the modelled client: NoUser or a uid
    ndb,            \* backend collection 'notifications': id = index
    notifications,  \* useState<Notification[]>: the local snapshot, newest first
    pendRead,       \* in-flight updateDoc{read:true} writes: <<source, id>>
    pendAdd,        \* in-flight addDoc writes of addNotification
    toasted,        \* ids for which the latest delivery raised toast.info
    ma,             \* the latest markAllAsRead call: its batch, or disturbed
    nlast           \* the read-marking write the backend applied last

VARIABLES
    \* ---- the duplicate test on its own (inputs and results) ----
    dA, dB,         \* two participant lists
    dSnap,          \* a chat-list snapshot: the participant lists of its docs
    dOut,           \* what the code computed from them
    dpc             \* "in": inputs drawn, then the name of the step applied

VARIABLES
    \* ---- backend collections of the messages page ----
    chatsDb,        \* collection 'chats': id = index
    chatOrder,      \* the chat ids by lastMessageAt, latest first
    msgsDb,         \* collection 'messages': id = index, in timestamp order
    \* ---- Messages component, one instance per client ----
    selectedChat,   \* useState<Chat | null>
    chats,          \* useState<Chat[]>: the exposed conversation list
    messages,       \* useState<Message[]>: the last delivered message list
    msgFresh,       \* the message listener has not delivered yet
    newMessage,     \* useState(''): the draft
    op,             \* the multi-step handler the client is in, and its closure
    pendReset,      \* in-flight unread-counter resets: <<user, chat id>>
    pendMsgRead,    \* message ids with a read-marking write in flight
    raced,          \* two createNewChat calls have overlapped
    firstId,        \* the chat each client's createNewChat created
    clast           \* the last step of the messages page

VARIABLES
    \* ---- the call overlay of the messages page (one client) ----
    callState,      \* useState<CallState>
    callWrites,     \* in-flight addDoc writes of initiateCall, oldest first
    callTimers,     \* pending setTimeout callbacks of initiateCall: the
                    \* numbers of the calls that set them
    callId,         \* how many times initiateCall ran: the latest call's number
    klast           \* the last step of the call handlers

VARIABLES
    \* ---- the chat-list subscription of the messages page (one client) ----
    loading,        \* useState(true)
    chatUsers,      \* useState({}): the ids the resolved map has an entry for
    cb,             \* the runs of the async snapshot callback, per delivery
    sub             \* the listener: "attached", "failed" after an error, or
                    \* "torn" after the effect's cleanup ran unsubscribe()

VARIABLES
    \* ---- the property inquiry form (handleContactSubmit), client Me ----
    inq,            \* the handler's position, its property's seller, outcome
    inqDb,          \* backend collection 'inquiries'
    propCount       \* the field inquiries of the property document

VARIABLES
    \* ---- the messages page's selected user, per client ----
    selectedUser    \* useState<ChatUser | null>(null): the user's id or NoUser

VARIABLES
    \* ---- the transactions page (pages/Transactions.tsx) of one client ----
    role,           \* user.role of the signed-in user
    txs,            \* backend collection 'withdrawalRequests': id = index
    transactions,   \* useState<Transaction[]>: the list fetched at mount
    wallet,         \* backend document wallets/<owner>: exists, balance
    upd,            \* handleUpdateStatus: its position and its arguments
    debits          \* per transaction: how often its amount was subtracted

VARIABLES
    \* ---- one delivery of the notification listener, change by change ----
    tChanges,       \* snapshot.docChanges() not yet visited by forEach
    tOut            \* per visited change: the change and whether toast.info ran

nvars == <<user, ndb, notifications, pendRead, pendAdd, toasted, ma, nlast>>
dvars == <<dA, dB, dSnap, dOut, dpc>>
\* ndb is shared with the notification store: handleSendMessage writes to it
cvars == <<chatsDb, chatOrder, msgsDb, selectedChat, chats, messages, msgFresh,
           newMessage, op, pendReset, pendMsgRead, raced, firstId, clast>>

kvars == <<callState, callWrites, callTimers, callId, klast>>
\* the variables added for the handlers outside the three groups above
lvars == <<loading, chatUsers, cb, sub>>
ivars == <<inq, inqDb, propCount>>
tvars == <<tChanges, tOut>>
svars == <<selectedUser>>
wvars == <<role, txs, transactions, wallet, upd, debits>>
xvars == <<kvars, lvars, ivars, tvars, svars, wvars>>

vars == <<nvars, dvars, cvars, xvars>>

\* the variables outside the notification store, outside the duplicate test
\* and outside the messages page
notN == <<dvars, cvars, xvars>>
notD == <<nvars, cvars, xvars>>
notC == <<user, notifications, pendRead, pendAdd, toasted, ma, nlast, dvars, xvars>>

(***************************************************************************)
(* Helpers                                                                 *)
(***************************************************************************)
Range(s) == {s[i] : i \in 1..Len(s)}

NotifIds == 1..MaxNotifs
Srcs == {"one", "all"}

(***************************************************************************)
(* Notification store                                                      *)
(***************************************************************************)
\* query(collection 'notifications', where userId == uid, orderBy createdAt desc)
\* mapped to Notification objects; creation order is the index in ndb
NotificationsQuery(uid) ==
    LET n == Len(ndb)
        newestFirst == [k \in 1..n |->
            [id |-> n + 1 - k, type |-> ndb[n + 1 - k].type, read |-> ndb[n + 1 - k].read]]
        Mine(d) == ndb[d.id].userId = uid
    IN  SelectSeq(newestFirst, Mine)

LocalIds == {notifications[k].id : k \in 1..Len(notifications)}

\* const unreadCount = notifications.filter(n => !n.read).length
unreadCount == Cardinality({k \in 1..Len(notifications) : ~notifications[k].read})

\* notifications.filter(n => !n.read) as the set of their ids
UnreadLocalIds == {notifications[k].id : k \in {j \in 1..Len(notifications) : ~notifications[j].read}}

\* (mutant) the change type is not looked at
ShouldToastAnyChange(changeType, n) == ~n.read /\ n.type = "message"

\* the toast condition of the subscription callback
ShouldToast(changeType, n) == changeType = "added" /\ ~n.read /\ n.type = "message"

\* (mutant) the write flips the flag instead of setting it
ReadWriteValueToggle(old) == ~old

\* the value updateDoc(..., {read: true, readAt}) stores in the read field
ReadWriteValue(old) == TRUE

\* (mutant) the payload's read flag is stored
NewNotificationDocPayloadRead(uid, payload) ==
    [userId |-> uid, type |-> payload.type, read |-> payload.read]

\* the document addNotification stores: {...notification, userId, read:false}
NewNotificationDoc(uid, payload) ==
    [userId |-> uid, type |-> payload.type, read |-> FALSE]

\* no conversation selected (selectedChat === null), as a Chat-shaped value
NoChat == [id |-> 0, participants |-> <<>>, unreadCount |-> [u \in Users |-> 0]]

\* no multi-step handler running
Idle == [pc |-> "idle", chat |-> NoChat, content |-> "", participants |-> <<>>]

NoCStep == [op |-> "other", u |-> NoUser, id |-> 0, n |-> 0,
            before |-> [u \in Users |-> 0], set |-> {}, parts |-> <<>>,
            alert |-> FALSE]

\* the variables of the messages page at rest
CIdle ==
    /\ chatsDb = <<>> /\ chatOrder = <<>> /\ msgsDb = <<>>
    /\ selectedChat = [u \in Users |-> NoChat]
    /\ chats = [u \in Users |-> <<>>]
    /\ messages = [u \in Users |-> <<>>]
    /\ msgFresh = [u \in Users |-> FALSE]
    /\ newMessage = [u \in Users |-> ""]
    /\ op = [u \in Users |-> Idle]
    /\ pendReset = {} /\ pendMsgRead = {}
    /\ raced = FALSE
    /\ firstId = [u \in Users |-> 0]
    /\ clast = NoCStep

\* the variables of the duplicate test at rest
DIdle == dA = <<>> /\ dB = <<>> /\ dSnap = <<>> /\ dOut = <<>> /\ dpc = "off"

\* callState as useState initialises it and as endCall resets it
CallIdle == [isActive |-> FALSE, type |-> "null", isMuted |-> FALSE,
             isVideoEnabled |-> TRUE, duration |-> 0]

NoKStep == [op |-> "other", before |-> CallIdle, inflight |-> 0]

\* the call overlay at rest
KIdle ==
    /\ callState = CallIdle /\ callWrites = <<>> /\ callTimers = {} /\ callId = 0
    /\ klast = NoKStep

\* the deliveries of the chat-list listener the model follows
Deliveries == {"first", "second"}

\* a callback run that has not started
NoRun == [pc |-> "none", todo |-> <<>>, usersData |-> {}, issued |-> <<>>,
          outcomes |-> {}]

\* the chat-list subscription before its first delivery
LIdle ==
    /\ loading = TRUE /\ chatUsers = {} /\ cb = [d \in Deliveries |-> NoRun]
    /\ sub = "attached"

\* handleContactSubmit not running; addOk and last tell how the latest run
\* went
NoInquiry == [pc |-> "idle", seller |-> NoUser, addOk |-> FALSE, last |-> "none"]

\* the inquiry form at rest, the property loaded with inquiries = 0
IIdle == inq = NoInquiry /\ inqDb = <<>> /\ propCount = 0

\* the variables of xvars at rest
TIdle == tChanges = <<>> /\ tOut = <<>>
SIdle == selectedUser = [u \in Users |-> NoUser]

\* handleUpdateStatus not running; n counts its invocations
NoUpdate == [pc |-> "idle", id |-> 0, status |-> "pending", read |-> 0, n |-> 0]

\* the transactions page not mounted
WIdle ==
    /\ role = "user" /\ txs = <<>> /\ transactions = <<>>
    /\ wallet = [exists |-> FALSE, balance |-> 0]
    /\ upd = NoUpdate /\ debits = <<>>

XIdle == KIdle /\ LIdle /\ IIdle /\ TIdle /\ SIdle /\ WIdle

\* nlast records the read-marking write the backend applied in the last
\* step; every other step leaves this value
NoStep == [op |-> "other", id |-> 0, was |-> FALSE]

\* ma.st: "none" before any markAllAsRead call; "live" after a call whose
\* writes (for the ids ma.batch) have all succeeded so far and beside which
\* no other unread notification of the user exists; "disturbed" once a write
\* of the call was rejected or another unread notification of the user exists
MaNone == [st |-> "none", batch |-> {}]
MaDisturbed == [st |-> "disturbed", batch |-> {}]
MaLive(ids) == [st |-> "live", batch |-> ids]
\* disturbed by the rejection of a write of the call for the ids
MaFailed(ids) == [st |-> "disturbed", batch |-> ids]

NInit ==
    /\ user = Me
    /\ ndb = <<>>
    /\ notifications = <<>>
    /\ pendRead = {}
    /\ pendAdd = {}
    /\ toasted = {}
    /\ ma = MaNone
    /\ nlast = NoStep
    /\ DIdle
    /\ XIdle
    /\ CIdle

\* useEffect([user]) with user == null: setNotifications([]) and the
\* listener of the previous user is unsubscribed
SignOut ==
    /\ user # NoUser
    /\ user' = NoUser
    /\ notifications' = <<>>
    /\ toasted' = {}
    /\ nlast' = NoStep
    /\ UNCHANGED <<ndb, pendRead, pendAdd, ma>>
    /\ UNCHANGED notN

\* useEffect([user]) with a user: a new listener is attached
SignIn ==
    /\ user = NoUser
    /\ user' = Me
    /\ nlast' = NoStep
    /\ UNCHANGED <<ndb, notifications, pendRead, pendAdd, toasted, ma>>
    /\ UNCHANGED notN

\* onSnapshot(notificationsQuery) callback: the whole result replaces the
\* local list; a toast per added, unread "message" notification
NotifDeliver ==
    /\ user # NoUser
    /\ NotificationsQuery(user) # notifications
    /\ notifications' = NotificationsQuery(user)
    /\ toasted' = {d.id : d \in {c \in Range(NotificationsQuery(user)) :
                                   c.id \notin LocalIds /\ ShouldToast("added", c)}}
    /\ nlast' = NoStep
    /\ UNCHANGED <<user, ndb, pendRead, pendAdd, ma>>
    /\ UNCHANGED notN

\* markAsRead(notificationId): issues updateDoc and awaits it
MarkAsRead(id) ==
    /\ id \in LocalIds
    /\ <<"one", id>> \notin pendRead
    /\ pendRead' = pendRead \cup {<<"one", id>>}
    /\ nlast' = NoStep
    /\ UNCHANGED <<user, ndb, notifications, pendAdd, toasted, ma>>
    /\ UNCHANGED notN

\* (mutant) every notification of the local snapshot gets a write
MarkAllWritesEveryLocal == {<<"all", id>> : id \in LocalIds}

\* (mutant) only the newest unread notification gets a write
MarkAllWritesNewestOnly ==
    {<<"all", id>> : id \in {i \in UnreadLocalIds : \A j \in UnreadLocalIds : j <= i}}

\* the writes markAllAsRead issues: one per locally unread notification
MarkAllWrites == {<<"all", id>> : id \in UnreadLocalIds}

\* markAllAsRead(): if (!user) return; all writes are issued before any is
\* awaited (Promise.all)
MarkAllAsRead ==
    /\ user # NoUser
    /\ MarkAllWrites \cap pendRead = {}
    /\ pendRead' = pendRead \cup MarkAllWrites
    /\ ma' = IF \E i \in 1..Len(ndb) :
                    ndb[i].userId = user /\ ~ndb[i].read /\ i \notin UnreadLocalIds
             THEN MaDisturbed
             ELSE MaLive(UnreadLocalIds)
    /\ nlast' = NoStep
    /\ UNCHANGED <<user, ndb, notifications, pendAdd, toasted>>
    /\ UNCHANGED notN

\* the backend applies an updateDoc{read:true} write
ApplyReadWrite(src, id) ==
    /\ <<src, id>> \in pendRead
    /\ id <= Len(ndb)
    /\ pendRead' = pendRead \ {<<src, id>>}
    /\ ndb' = [ndb EXCEPT ![id].read = ReadWriteValue(@)]
    /\ nlast' = [op |-> "applyRead", id |-> id, was |-> ndb[id].read]
    /\ UNCHANGED <<user, notifications, pendAdd, toasted, ma>>
    /\ UNCHANGED notN

\* the write rejects: the catch block logs it and nothing else happens
FailReadWrite(src, id) ==
    /\ <<src, id>> \in pendRead
    /\ pendRead' = pendRead \ {<<src, id>>}
    /\ ma' = IF src = "all" /\ ma.st = "live" THEN MaFailed(ma.batch) ELSE ma
    /\ nlast' = NoStep
    /\ UNCHANGED <<user, ndb, notifications, pendAdd, toasted>>
    /\ UNCHANGED notN

\* ma after a new document landed in the backend
MaAfterArrival(doc) ==
    IF ma # MaNone /\ doc.userId = Me /\ ~doc.read THEN MaDisturbed ELSE ma

\* addNotification(payload): if (!user) return; issues addDoc with
\* userId = user.uid and read = false
AddNotification(payload) ==
    /\ user # NoUser
    /\ NewNotificationDoc(user, payload) \notin pendAdd
    /\ pendAdd' = pendAdd \cup {NewNotificationDoc(user, payload)}
    /\ nlast' = NoStep
    /\ UNCHANGED <<user, ndb, notifications, pendRead, toasted, ma>>
    /\ UNCHANGED notN

ApplyAdd(doc) ==
    /\ doc \in pendAdd
    /\ Len(ndb) < MaxNotifs
    /\ pendAdd' = pendAdd \ {doc}
    /\ ndb' = Append(ndb, doc)
    /\ ma' = MaAfterArrival(doc)
    /\ nlast' = NoStep
    /\ UNCHANGED <<user, notifications, pendRead, toasted>>
    /\ UNCHANGED notN

FailAdd(doc) ==
    /\ doc \in pendAdd
    /\ pendAdd' = pendAdd \ {doc}
    /\ nlast' = NoStep
    /\ UNCHANGED <<user, ndb, notifications, pendRead, toasted, ma>>
    /\ UNCHANGED notN

\* the notification addDoc of another client's handler (handleSendMessage
\* of a sender, handleContactSubmit of a buyer) is applied
ProducerNotify(uid, type) ==
    /\ Len(ndb) < MaxNotifs
    /\ LET doc == [userId |-> uid, type |-> type, read |-> FALSE]
       IN  /\ ndb' = Append(ndb, doc)
           /\ ma' = MaAfterArrival(doc)
    /\ nlast' = NoStep
    /\ UNCHANGED <<user, notifications, pendRead, pendAdd, toasted>>
    /\ UNCHANGED notN

Payloads == [type : NotifTypes, read : BOOLEAN]

\* The store of one client; the documents of other users never enter its
\* query, so the producers are those that address the signed-in user.
NNext ==
    \/ SignOut
    \/ SignIn
    \/ NotifDeliver
    \/ \E id \in NotifIds : MarkAsRead(id)
    \/ MarkAllAsRead
    \/ \E s \in Srcs, id \in NotifIds : ApplyReadWrite(s, id)
    \/ \E s \in Srcs, id \in NotifIds : FailReadWrite(s, id)
    \/ \E p \in Payloads : AddNotification(p)
    \/ \E d \in pendAdd : ApplyAdd(d)
    \/ \E d \in pendAdd : FailAdd(d)
    \/ \E t \in NotifTypes : ProducerNotify(Me, t)

SpecNotif == NInit /\ [][NNext]_vars

\* Every issued write is answered (applied or rejected) and a changed query
\* result is delivered to an attached listener.
NFairness ==
    /\ \A s \in Srcs, id \in NotifIds :
          WF_vars(ApplyReadWrite(s, id) \/ FailReadWrite(s, id))
    /\ WF_vars(NotifDeliver)

\* The read path of the store while the user stays signed in: deliveries,
\* markAsRead, markAllAsRead, the answers to their writes, and arrivals.
NNextLive ==
    \/ NotifDeliver
    \/ \E id \in NotifIds : MarkAsRead(id)
    \/ MarkAllAsRead
    \/ \E s \in Srcs, id \in NotifIds : ApplyReadWrite(s, id)
    \/ \E s \in Srcs, id \in NotifIds : FailReadWrite(s, id)
    \/ \E t \in NotifTypes : ProducerNotify(Me, t)

SpecNotifLive == NInit /\ [][NNextLive]_vars /\ NFairness

(***************************************************************************)
(* C1: once a markAsRead write has been applied to a notification, its     *)
(* read flag is true, and no later step of any operation makes it false;   *)
(* a markAsRead write applied to an already-read notification leaves the   *)
(* flag true.                                                              *)
(***************************************************************************)
C1_ReadStaysTrue ==
    /\ [](nlast.op = "applyRead" => ndb[nlast.id].read)
    /\ [][\A i \in 1..Len(ndb) : ndb[i].read => (i <= Len(ndb') /\ ndb'[i].read)]_vars

\* a markAsRead write was just applied to a notification that was already read
C1_Witness == nlast.op = "applyRead" /\ nlast.was /\ ndb[nlast.id].read

(***************************************************************************)
(* C2: after markAllAsRead, provided no write it issued is rejected and no *)
(* other unread notification of the user exists or arrives, eventually     *)
(* every notification of the batch is read in the backend and in the local *)
(* snapshot, and the derived unreadCount is 0.                             *)
(***************************************************************************)
MarkAllSettled ==
    /\ \A id \in ma.batch : ndb[id].read
    /\ \A k \in 1..Len(notifications) :
          notifications[k].id \in ma.batch => notifications[k].read
    /\ unreadCount = 0

C2_MarkAllConverges == (ma.st = "live") ~> (ma.st = "disturbed" \/ MarkAllSettled)

\* two unread notifications, one of type "message", were marked by one
\* markAllAsRead call and the snapshot showing both read has been delivered
C2_Witness ==
    /\ ma.st = "live" /\ Cardinality(ma.batch) = 2
    /\ \E id \in ma.batch : ndb[id].type = "message"
    /\ Len(notifications) = 2
    /\ MarkAllSettled


(***************************************************************************)
(* The duplicate test of the chat list and of createNewChat                *)
(***************************************************************************)
AllUsers == {"u1", "u2", "u3"}

\* Array.prototype.includes
Includes(list, p) == \E i \in 1..Len(list) : list[i] = p

\* (mutant) the test compares the lists position by position
SameParticipantsOrdered(c, chat) == c = chat

\* uniqueChats, the findIndex predicate: c.participants.length ===
\* chat.participants.length && c.participants.every(p =>
\* chat.participants.includes(p))
SameParticipants(c, chat) ==
    /\ Len(c) = Len(chat)
    /\ \A i \in 1..Len(c) : Includes(chat, c[i])

\* createNewChat, the find predicate: chatParticipants.length ===
\* participants.length && participants.every(p => chatParticipants.includes(p))
ExistingMatches(chatParticipants, participants) ==
    /\ Len(chatParticipants) = Len(participants)
    /\ \A i \in 1..Len(participants) : Includes(chatParticipants, participants[i])

\* self.findIndex(c => test(c, chat)), 1-based; 0 when nothing matches
FindIndex(self, chat) ==
    LET hits == {j \in 1..Len(self) : SameParticipants(self[j], chat)}
    IN  IF hits = {} THEN 0 ELSE CHOOSE j \in hits : \A k \in hits : j <= k

\* (mutant) the filter keeps every document
UniqueIndexesAll(self) == 1..Len(self)

\* chatsData.filter((chat, index, self) => index === self.findIndex(...)),
\* on the participant lists of the docs
UniqueIndexes(self) == {i \in 1..Len(self) : i = FindIndex(self, self[i])}

\* the sub-sequence of s at the indexes in keep, order kept
SubSeqAt(s, keep) ==
    LET F[i \in 0..Len(s)] ==
            IF i = 0 THEN <<>>
            ELSE IF i \in keep THEN Append(F[i - 1], s[i]) ELSE F[i - 1]
    IN  F[Len(s)]

UniqueChats(self) == SubSeqAt(self, UniqueIndexes(self))

\* every list of 1..n users, repetitions included
ListsUpTo(n) == UNION {[1..k -> AllUsers] : k \in 1..n}

NoRepeat(l) == \A i, j \in 1..Len(l) : l[i] = l[j] => i = j

\* The participant lists this code base stores: createNewChat writes
\* [user.uid, ...userIds] with at least one selected user, the selected users
\* distinct and different from the current user; the property inquiry and the
\* admin's message action write [user.uid, other], where other may be the
\* current user.
StoredLists ==
    {l \in ListsUpTo(MaxParticipants) : Len(l) >= 2 /\ NoRepeat(l)}
        \cup {<<u, u>> : u \in AllUsers}

\* the lists a snapshot of Me's chat query can hold (array-contains user.uid)
MyLists == {l \in StoredLists : Includes(l, Me)}

SnapshotsUpTo(n) == UNION {[1..k -> MyLists] : k \in 0..n}

\* the participant lists createNewChat(userIds) can build for Me
NewChatLists == {l \in MyLists : l[1] = Me /\ NoRepeat(l)}

DInit ==
    /\ user = Me /\ ndb = <<>> /\ notifications = <<>> /\ pendRead = {}
    /\ pendAdd = {} /\ toasted = {} /\ ma = MaNone /\ nlast = NoStep
    /\ CIdle
    /\ XIdle
    /\ \/ /\ dpc = "pair"
          /\ dA \in ListsUpTo(MaxParticipants)
          /\ dB \in ListsUpTo(MaxParticipants)
          /\ dSnap = <<>>
       \/ /\ dpc = "snap"
          /\ dA = <<>> /\ dB = <<>>
          /\ dSnap \in SnapshotsUpTo(MaxSnap)
       \/ /\ dpc = "new"
          /\ dA \in NewChatLists
          /\ dB = <<>>
          /\ dSnap \in SnapshotsUpTo(MaxSnap)
    /\ dOut = <<>>

\* both tests applied to a conversation built from dA and one built from dB
CompareLists ==
    /\ dpc = "pair"
    /\ dOut' = <<SameParticipants(dA, dB), ExistingMatches(dA, dB)>>
    /\ dpc' = "compared"
    /\ UNCHANGED <<dA, dB, dSnap>>
    /\ UNCHANGED notD

\* the chat-list delivery: setChats(uniqueChats)
ExposeChats ==
    /\ dpc = "snap"
    /\ dOut' = UniqueChats(dSnap)
    /\ dpc' = "exposed"
    /\ UNCHANGED <<dA, dB, dSnap>>
    /\ UNCHANGED notD

\* createNewChat: existingChats.docs.find(...) for the participants dA; the
\* result is the set of indexes find may return (the first match in the
\* order of the query result)
FindExisting ==
    /\ dpc = "new"
    /\ dOut' = <<{i \in 1..Len(dSnap) : ExistingMatches(dSnap[i], dA)}>>
    /\ dpc' = "found"
    /\ UNCHANGED <<dA, dB, dSnap>>
    /\ UNCHANGED notD

DNext == CompareLists \/ ExposeChats \/ FindExisting

SpecDedup == DInit /\ [][DNext]_vars

SameSet(a, b) == Range(a) = Range(b)

\* b is a reordering of a
IsPermutation(a, b) ==
    /\ Len(a) = Len(b)
    /\ \A u \in AllUsers :
          Cardinality({i \in 1..Len(a) : a[i] = u}) = Cardinality({i \in 1..Len(b) : b[i] = u})

(***************************************************************************)
(* C3: two participant lists with the same elements in any order are the   *)
(* same conversation for the chat-list filter and for createNewChat: for   *)
(* every list and each of its reorderings, and for every two lists the     *)
(* code can store whose sets of participants are equal.                    *)
(***************************************************************************)
C3_OrderInsensitive ==
    dpc = "compared" =>
        ((IsPermutation(dA, dB)
            \/ (dA \in StoredLists /\ dB \in StoredLists /\ SameSet(dA, dB)))
         => (dOut[1] /\ dOut[2]))

\* two different orders of the same three participants were compared
C3_Witness ==
    /\ dpc = "compared" /\ dA # dB /\ Len(dA) = 3 /\ NoRepeat(dA)
    /\ IsPermutation(dA, dB) /\ dOut[1] /\ dOut[2]

(***************************************************************************)
(* C9: after a chat-list delivery the exposed list holds no two            *)
(* conversations with the same set of participants, whatever duplicates    *)
(* the snapshot holds.                                                     *)
(***************************************************************************)
C9_NoDuplicateExposed ==
    dpc = "exposed" =>
        \A i, j \in 1..Len(dOut) : SameSet(dOut[i], dOut[j]) => i = j

\* a snapshot with two docs of the same two participants, in different
\* orders, was delivered and one of them was exposed
C9_Witness ==
    /\ dpc = "exposed" /\ Len(dSnap) = 2 /\ dSnap[1] # dSnap[2]
    /\ SameSet(dSnap[1], dSnap[2]) /\ Len(dOut) = 1

(***************************************************************************)
(* The messages page (pages/Messages.tsx), one component per client        *)
(***************************************************************************)
Contents == {"a", "b"}

\* the Chat object a client holds for document id: the fields the handlers
\* read (id, participants, unreadCount)
ChatSnap(id) ==
    [id |-> id, participants |-> chatsDb[id].participants,
     unreadCount |-> chatsDb[id].unreadCount]

\* query(collection 'chats', where participants array-contains uid,
\* orderBy lastMessageAt desc), mapped to Chat objects
ChatsQuery(uid) ==
    LET all == [k \in 1..Len(chatOrder) |-> ChatSnap(chatOrder[k])]
        Mine(c) == Includes(c.participants, uid)
    IN  SelectSeq(all, Mine)

\* the uniqueChats filter on Chat objects
ExposedChats(snap) ==
    SubSeqAt(snap, UniqueIndexes([i \in 1..Len(snap) |-> snap[i].participants]))

\* query(collection 'messages', where chatId == id, orderBy timestamp asc),
\* mapped to Message objects: the fields the handler reads
MessagesQuery(chatId) ==
    LET all == [i \in 1..Len(msgsDb) |->
                   [id |-> i, receiverId |-> msgsDb[i].receiverId, read |-> msgsDb[i].read]]
        InChat(m) == msgsDb[m.id].chatId = chatId
    IN  SelectSeq(all, InChat)

\* (mutant) every unread message of the list is marked, whoever receives it
UnreadMessagesAnyReceiver(u, msgs) == {m.id : m \in {x \in Range(msgs) : ~x.read}}

\* messagesData.filter(msg => msg.receiverId === user?.uid && !msg.read)
UnreadMessages(u, msgs) ==
    {m.id : m \in {x \in Range(msgs) : x.receiverId = u /\ ~x.read}}

\* participants.find(id => id !== user.uid); NoUser for undefined
OtherParticipant(participants, u) ==
    LET hits == {i \in 1..Len(participants) : participants[i] # u}
    IN  IF hits = {} THEN NoUser
        ELSE participants[CHOOSE i \in hits : \A j \in hits : i <= j]

\* (selectedChat.unreadCount?.[receiverId] || 0) + 1
NextUnread(chat, receiverId) == chat.unreadCount[receiverId] + 1

\* (mutant) the reset is written under the other participant's key
ResetKeyOther(u, participants) == OtherParticipant(participants, u)

\* handleChatSelect: the field `unreadCount.${user.uid}` of the reset write
ResetKey(u, participants) == u

\* (mutant) a new conversation starts with one unread message for the others
NewChatDocUnreadOne(participants) ==
    [participants |-> participants, lastMessage |-> "", lastMessageSenderId |-> "",
     unreadCount |-> [u \in Users |-> IF u = participants[1] THEN 0 ELSE 1]]

\* createNewChat: chatData; every participant's counter is 0
NewChatDoc(participants) ==
    [participants |-> participants, lastMessage |-> "", lastMessageSenderId |-> "",
     unreadCount |-> [u \in Users |-> 0]]

\* (mutant) the documents are compared with the selected users only
ExistingChatIdsSelectedOnly(u, participants) ==
    {i \in 1..Len(chatsDb) :
        /\ Includes(chatsDb[i].participants, u)
        /\ ExistingMatches(chatsDb[i].participants, Tail(participants))}

\* createNewChat: the documents of getDocs(existingChatsQuery) that the find
\* predicate accepts
ExistingChatIds(u, participants) ==
    {i \in 1..Len(chatsDb) :
        /\ Includes(chatsDb[i].participants, u)
        /\ ExistingMatches(chatsDb[i].participants, participants)}

\* (mutant) the create runs in a transaction that re-checks for a duplicate
CreateGuardRecheck(u) == ExistingChatIds(u, op[u].participants) = {}

\* createNewChat: addDoc(collection(db, 'chats'), chatData) is unconditional
CreateGuard(u) == TRUE

\* whether the catch block of a handler raises a transient alert (toast.error)
\* besides console.error: handleChatSelect's and the read-marking forEach's
\* do not, handleSendMessage's and createNewChat's do
ResetErrorAlert == FALSE
ReadErrorAlert == FALSE
SendErrorAlert == TRUE
NewChatErrorAlert == TRUE

\* the id order after a write set lastMessageAt of id to the server time
Touch(id) == <<id>> \o SelectSeq(chatOrder, LAMBDA x : x # id)

CInit ==
    /\ user = Me /\ ndb = <<>> /\ notifications = <<>> /\ pendRead = {}
    /\ pendAdd = {} /\ toasted = {} /\ ma = MaNone /\ nlast = NoStep
    /\ DIdle
    /\ XIdle
    /\ CIdle

\* onSnapshot(chatsQuery) callback: setChats(uniqueChats)
ChatsDeliver(u) ==
    /\ ExposedChats(ChatsQuery(u)) # chats[u]
    /\ chats' = [chats EXCEPT ![u] = ExposedChats(ChatsQuery(u))]
    /\ clast' = NoCStep
    /\ UNCHANGED <<chatsDb, chatOrder, msgsDb, ndb, selectedChat, messages, msgFresh,
                   newMessage, op, pendReset, pendMsgRead, raced, firstId>>
    /\ UNCHANGED notC

\* the resolved-participant map of client u; the model follows the chat-list
\* lookups of Me only, for another client no lookup has been answered
ChatUsersOf(u) == IF u = Me THEN chatUsers ELSE {}

\* handleChatSelect: if (otherUserId && chatUsers[otherUserId])
\* setSelectedUser(chatUsers[otherUserId]); otherwise selectedUser is kept
SelectedUserAfter(u, chat) ==
    LET otherUserId == OtherParticipant(chat.participants, u) IN
    IF otherUserId # NoUser /\ otherUserId \in ChatUsersOf(u)
    THEN otherUserId ELSE selectedUser[u]

\* handleChatSelect(chat) for the k-th entry of the exposed list
HandleChatSelect(u, k) ==
    /\ k \in 1..Len(chats[u])
    /\ LET chat == chats[u][k] IN
        /\ selectedChat' = [selectedChat EXCEPT ![u] = chat]
        /\ msgFresh' = [msgFresh EXCEPT ![u] = TRUE]
        /\ pendReset' = IF chat.unreadCount[u] > 0
                        THEN pendReset \cup {<<u, chat.id>>}
                        ELSE pendReset
        /\ clast' = [NoCStep EXCEPT !.op = "select", !.u = u, !.id = chat.id,
                                    !.n = chat.unreadCount[u]]
        /\ selectedUser' = [selectedUser EXCEPT ![u] = SelectedUserAfter(u, chat)]
    /\ UNCHANGED <<chatsDb, chatOrder, msgsDb, ndb, chats, messages,
                   newMessage, op, pendMsgRead, raced, firstId>>
    /\ UNCHANGED <<user, notifications, pendRead, pendAdd, toasted, ma, nlast, dvars,
                   kvars, lvars, ivars, tvars, wvars>>

\* (mutant) the reset replaces the document instead of updating one field
ApplyResetReplacingDoc(u, id) ==
    /\ <<u, id>> \in pendReset
    /\ pendReset' = pendReset \ {<<u, id>>}
    /\ chatsDb' = [chatsDb EXCEPT ![id] = NewChatDoc(<<u>>)]
    /\ clast' = [NoCStep EXCEPT !.op = "applyReset", !.u = u, !.id = id,
                                !.before = chatsDb[id].unreadCount]
    /\ UNCHANGED <<chatOrder, msgsDb, ndb, selectedChat, chats, messages, msgFresh,
                   newMessage, op, pendMsgRead, raced, firstId>>
    /\ UNCHANGED notC

\* the reset write updateDoc(chats/id, {unreadCount.<uid>: 0}) is applied
ApplyReset(u, id) ==
    /\ <<u, id>> \in pendReset
    /\ pendReset' = pendReset \ {<<u, id>>}
    /\ chatsDb' = [chatsDb EXCEPT
                      ![id].unreadCount[ResetKey(u, chatsDb[id].participants)] = 0]
    /\ clast' = [NoCStep EXCEPT !.op = "applyReset", !.u = u, !.id = id,
                                !.before = chatsDb[id].unreadCount]
    /\ UNCHANGED <<chatOrder, msgsDb, ndb, selectedChat, chats, messages, msgFresh,
                   newMessage, op, pendMsgRead, raced, firstId>>
    /\ UNCHANGED notC

\* the reset write rejects: console.error only
FailReset(u, id) ==
    /\ <<u, id>> \in pendReset
    /\ pendReset' = pendReset \ {<<u, id>>}
    /\ clast' = NoCStep
    /\ UNCHANGED <<chatsDb, chatOrder, msgsDb, ndb, selectedChat, chats, messages,
                   msgFresh, newMessage, op, pendMsgRead, raced, firstId>>
    /\ UNCHANGED notC

\* onSnapshot(messagesQuery) callback: setMessages, then one updateDoc per
\* message addressed to the user and unread
MsgDeliver(u) ==
    /\ selectedChat[u] # NoChat
    /\ msgFresh[u] \/ MessagesQuery(selectedChat[u].id) # messages[u]
    /\ LET snap == MessagesQuery(selectedChat[u].id) IN
        /\ messages' = [messages EXCEPT ![u] = snap]
        /\ pendMsgRead' = pendMsgRead \cup UnreadMessages(u, snap)
        /\ clast' = [NoCStep EXCEPT !.op = "msgDeliver", !.u = u,
                                    !.set = UnreadMessages(u, snap)]
    /\ msgFresh' = [msgFresh EXCEPT ![u] = FALSE]
    /\ UNCHANGED <<chatsDb, chatOrder, msgsDb, ndb, selectedChat, chats,
                   newMessage, op, pendReset, raced, firstId>>
    /\ UNCHANGED notC

\* (mutant) the read-marking write also clears the receiver's counter
ApplyMsgReadAndReset(m) ==
    /\ m \in pendMsgRead
    /\ pendMsgRead' = pendMsgRead \ {m}
    /\ msgsDb' = [msgsDb EXCEPT ![m].read = TRUE]
    /\ chatsDb' = [chatsDb EXCEPT
                      ![msgsDb[m].chatId].unreadCount[msgsDb[m].receiverId] = 0]
    /\ clast' = NoCStep
    /\ UNCHANGED <<chatOrder, ndb, selectedChat, chats, messages, msgFresh,
                   newMessage, op, pendReset, raced, firstId>>
    /\ UNCHANGED notC

\* a read-marking write updateDoc(messages/m, {read: true}) is applied
ApplyMsgRead(m) ==
    /\ m \in pendMsgRead
    /\ pendMsgRead' = pendMsgRead \ {m}
    /\ msgsDb' = [msgsDb EXCEPT ![m].read = TRUE]
    /\ clast' = NoCStep
    /\ UNCHANGED <<chatsDb, chatOrder, ndb, selectedChat, chats, messages, msgFresh,
                   newMessage, op, pendReset, raced, firstId>>
    /\ UNCHANGED notC

\* the read-marking write rejects: console.error only
FailMsgRead(m) ==
    /\ m \in pendMsgRead
    /\ pendMsgRead' = pendMsgRead \ {m}
    /\ clast' = NoCStep
    /\ UNCHANGED <<chatsDb, chatOrder, msgsDb, ndb, selectedChat, chats, messages,
                   msgFresh, newMessage, op, pendReset, raced, firstId>>
    /\ UNCHANGED notC

\* the input's onChange: setNewMessage(e.target.value)
TypeMessage(u, c) ==
    /\ newMessage[u] # c
    /\ newMessage' = [newMessage EXCEPT ![u] = c]
    /\ clast' = NoCStep
    /\ UNCHANGED <<chatsDb, chatOrder, msgsDb, ndb, selectedChat, chats, messages,
                   msgFresh, op, pendReset, pendMsgRead, raced, firstId>>
    /\ UNCHANGED notC

\* handleSendMessage, up to its first await: the guard, messageData, and
\* addDoc(collection 'messages') issued; the closure keeps selectedChat and
\* newMessage of this call
HandleSendMessage(u) ==
    /\ op[u].pc = "idle"
    /\ selectedChat[u] # NoChat
    /\ newMessage[u] # ""
    /\ op' = [op EXCEPT ![u] = [Idle EXCEPT !.pc = "send1", !.chat = selectedChat[u],
                                            !.content = newMessage[u]]]
    /\ clast' = NoCStep
    /\ UNCHANGED <<chatsDb, chatOrder, msgsDb, ndb, selectedChat, chats, messages,
                   msgFresh, newMessage, pendReset, pendMsgRead, raced, firstId>>
    /\ UNCHANGED notC

\* the message addDoc resolves; updateDoc(chats/id) is issued
SendMessageCreated(u) ==
    /\ op[u].pc = "send1"
    /\ Len(msgsDb) < MaxMsgs
    /\ msgsDb' = Append(msgsDb,
                    [chatId |-> op[u].chat.id, senderId |-> u,
                     receiverId |-> OtherParticipant(op[u].chat.participants, u),
                     content |-> op[u].content, read |-> FALSE])
    /\ op' = [op EXCEPT ![u].pc = "send2"]
    /\ clast' = NoCStep
    /\ UNCHANGED <<chatsDb, chatOrder, ndb, selectedChat, chats, messages, msgFresh,
                   newMessage, pendReset, pendMsgRead, raced, firstId>>
    /\ UNCHANGED notC

\* the conversation summary update resolves: lastMessage, lastMessageAt,
\* lastMessageSenderId and unreadCount.<receiverId>; then the notification
\* addDoc is issued if (receiverId), else setNewMessage('')
SendChatUpdated(u) ==
    /\ op[u].pc = "send2"
    /\ LET id == op[u].chat.id
           receiverId == OtherParticipant(op[u].chat.participants, u)
       IN
        /\ chatsDb' = [chatsDb EXCEPT
                          ![id].lastMessage = op[u].content,
                          ![id].lastMessageSenderId = u,
                          ![id].unreadCount = IF receiverId \in Users
                                              THEN [@ EXCEPT ![receiverId] =
                                                       NextUnread(op[u].chat, receiverId)]
                                              ELSE @]
        /\ chatOrder' = Touch(id)
        /\ clast' = [NoCStep EXCEPT !.op = "chatUpdated", !.u = u, !.id = id,
                                    !.before = chatsDb[id].unreadCount]
        /\ IF receiverId # NoUser
           THEN /\ op' = [op EXCEPT ![u].pc = "send3"]
                /\ UNCHANGED newMessage
           ELSE /\ op' = [op EXCEPT ![u] = Idle]
                /\ newMessage' = [newMessage EXCEPT ![u] = ""]
    /\ UNCHANGED <<msgsDb, ndb, selectedChat, chats, messages, msgFresh,
                   pendReset, pendMsgRead, raced, firstId>>
    /\ UNCHANGED notC

\* the notification addDoc resolves; setNewMessage('')
SendNotified(u) ==
    /\ op[u].pc = "send3"
    /\ Len(ndb) < MaxNotifs
    /\ ndb' = Append(ndb, [userId |-> OtherParticipant(op[u].chat.participants, u),
                           type |-> "message", read |-> FALSE])
    /\ newMessage' = [newMessage EXCEPT ![u] = ""]
    /\ op' = [op EXCEPT ![u] = Idle]
    /\ clast' = [NoCStep EXCEPT !.op = "sent", !.u = u, !.id = op[u].chat.id]
    /\ UNCHANGED <<chatsDb, chatOrder, msgsDb, selectedChat, chats, messages, msgFresh,
                   pendReset, pendMsgRead, raced, firstId>>
    /\ UNCHANGED notC

\* (mutant) the catch block also clears the draft
SendFailedClearsDraft(u) ==
    /\ op[u].pc \in {"send1", "send2", "send3"}
    /\ op' = [op EXCEPT ![u] = Idle]
    /\ newMessage' = [newMessage EXCEPT ![u] = ""]
    /\ clast' = [NoCStep EXCEPT !.op = "sendFailed", !.u = u,
                                !.alert = SendErrorAlert]
    /\ UNCHANGED <<chatsDb, chatOrder, msgsDb, ndb, selectedChat, chats, messages,
                   msgFresh, pendReset, pendMsgRead, raced, firstId>>
    /\ UNCHANGED notC

\* one of the three writes rejects: the catch block logs and toasts; the
\* later writes are not issued and the draft stays
SendFailed(u) ==
    /\ op[u].pc \in {"send1", "send2", "send3"}
    /\ op' = [op EXCEPT ![u] = Idle]
    /\ clast' = [NoCStep EXCEPT !.op = "sendFailed", !.u = u,
                                !.alert = SendErrorAlert]
    /\ UNCHANGED <<chatsDb, chatOrder, msgsDb, ndb, selectedChat, chats, messages,
                   msgFresh, newMessage, pendReset, pendMsgRead, raced, firstId>>
    /\ UNCHANGED notC

\* createNewChat(userIds), up to its first await: participants =
\* [user.uid, ...userIds] and getDocs(existingChatsQuery) issued.  The button
\* is disabled for an empty selection, and the selection holds distinct
\* users other than the current one.
CreateNewChat(u, userIds) ==
    /\ op[u].pc = "idle"
    /\ Len(userIds) > 0 /\ NoRepeat(userIds) /\ ~Includes(userIds, u)
    /\ op' = [op EXCEPT ![u] = [Idle EXCEPT !.pc = "new1",
                                            !.participants = <<u>> \o userIds]]
    /\ raced' = (raced \/ \E v \in Users \ {u} : op[v].pc \in {"new1", "new2"})
    /\ clast' = NoCStep
    /\ UNCHANGED <<chatsDb, chatOrder, msgsDb, ndb, selectedChat, chats, messages,
                   msgFresh, newMessage, pendReset, pendMsgRead, firstId>>
    /\ UNCHANGED notC

\* getDocs resolves and a document passes the find predicate: it becomes the
\* selected conversation.  The query has no orderBy, so the documents come in
\* the order of their (random) ids: find may return any of the matches.
NewChatFound(u) ==
    /\ op[u].pc = "new1"
    /\ \E m \in ExistingChatIds(u, op[u].participants) :
        /\ selectedChat' = [selectedChat EXCEPT ![u] = ChatSnap(m)]
        /\ clast' = [NoCStep EXCEPT !.op = "newExisting", !.u = u, !.id = m,
                                    !.n = firstId[u], !.parts = op[u].participants]
    /\ msgFresh' = [msgFresh EXCEPT ![u] = TRUE]
    /\ op' = [op EXCEPT ![u] = Idle]
    /\ UNCHANGED <<chatsDb, chatOrder, msgsDb, ndb, chats, messages, newMessage,
                   pendReset, pendMsgRead, raced, firstId>>
    /\ UNCHANGED notC

\* getDocs resolves and no document passes: addDoc(collection 'chats') issued
NewChatNotFound(u) ==
    /\ op[u].pc = "new1"
    /\ ExistingChatIds(u, op[u].participants) = {}
    /\ op' = [op EXCEPT ![u].pc = "new2"]
    /\ clast' = NoCStep
    /\ UNCHANGED <<chatsDb, chatOrder, msgsDb, ndb, selectedChat, chats, messages,
                   msgFresh, newMessage, pendReset, pendMsgRead, raced, firstId>>
    /\ UNCHANGED notC

\* the chat addDoc resolves: setSelectedChat(newChat)
NewChatCreated(u) ==
    /\ op[u].pc = "new2"
    /\ CreateGuard(u)
    /\ Len(chatsDb) < MaxChats
    /\ LET id == Len(chatsDb) + 1
           chatData == NewChatDoc(op[u].participants)
       IN
        /\ chatsDb' = Append(chatsDb, chatData)
        /\ chatOrder' = <<id>> \o chatOrder
        /\ selectedChat' = [selectedChat EXCEPT ![u] =
                               [id |-> id, participants |-> chatData.participants,
                                unreadCount |-> chatData.unreadCount]]
        /\ firstId' = [firstId EXCEPT ![u] = id]
        /\ clast' = [NoCStep EXCEPT !.op = "newCreated", !.u = u, !.id = id,
                                    !.n = firstId[u], !.parts = op[u].participants]
    /\ msgFresh' = [msgFresh EXCEPT ![u] = TRUE]
    /\ op' = [op EXCEPT ![u] = Idle]
    /\ UNCHANGED <<msgsDb, ndb, chats, messages, newMessage,
                   pendReset, pendMsgRead, raced>>
    /\ UNCHANGED notC

\* getDocs or addDoc rejects: the catch block logs and toasts
NewChatFailed(u) ==
    /\ op[u].pc \in {"new1", "new2"}
    /\ op' = [op EXCEPT ![u] = Idle]
    /\ clast' = [NoCStep EXCEPT !.op = "newFailed", !.u = u,
                                !.alert = NewChatErrorAlert]
    /\ UNCHANGED <<chatsDb, chatOrder, msgsDb, ndb, selectedChat, chats, messages,
                   msgFresh, newMessage, pendReset, pendMsgRead, raced, firstId>>
    /\ UNCHANGED notC

\* the selections the new-chat modal can hold for u
Selections(u) == {l \in UNION {[1..k -> Users \ {u}] : k \in 1..(MaxParticipants - 1)} : NoRepeat(l)}

\* the two clients of the conversation the messaging checks follow
Sender == "u1"
Recipient == "u2"

\* first contact: the clients load their lists, open conversations and start
\* new ones; no message is sent yet
BNext ==
    \/ \E u \in Users : ChatsDeliver(u)
    \/ \E u \in Users, k \in 1..MaxChats : HandleChatSelect(u, k)
    \/ \E u \in Users : \E l \in Selections(u) : CreateNewChat(u, l)
    \/ \E u \in Users : NewChatFound(u)
    \/ \E u \in Users : NewChatNotFound(u)
    \/ \E u \in Users : NewChatCreated(u)
    \/ \E u \in Users : NewChatFailed(u)

SpecBoot == CInit /\ [][BNext]_vars

\* the state after Sender's createNewChat([Recipient]) on the empty backend
\* has created conversation 1 and selected it
MInit ==
    /\ user = Me /\ ndb = <<>> /\ notifications = <<>> /\ pendRead = {}
    /\ pendAdd = {} /\ toasted = {} /\ ma = MaNone /\ nlast = NoStep
    /\ DIdle
    /\ XIdle
    /\ chatsDb = <<NewChatDoc(<<Sender, Recipient>>)>>
    /\ chatOrder = <<1>> /\ msgsDb = <<>>
    /\ selectedChat = [u \in Users |->
                          IF u = Sender
                          THEN [id |-> 1, participants |-> <<Sender, Recipient>>,
                                unreadCount |-> [v \in Users |-> 0]]
                          ELSE NoChat]
    /\ chats = [u \in Users |-> <<>>]
    /\ messages = [u \in Users |-> <<>>]
    /\ msgFresh = [u \in Users |-> u = Sender]
    /\ newMessage = [u \in Users |-> ""]
    /\ op = [u \in Users |-> Idle]
    /\ pendReset = {} /\ pendMsgRead = {}
    /\ raced = FALSE
    /\ firstId = [u \in Users |-> IF u = Sender THEN 1 ELSE 0]
    /\ clast = NoCStep

\* one user sends; both clients refresh their lists, open the conversation
\* and reset their counters
SendNext ==
    \/ \E u \in Users : ChatsDeliver(u)
    \/ \E u \in Users, k \in 1..MaxChats : HandleChatSelect(u, k)
    \/ \E u \in Users, id \in 1..MaxChats : ApplyReset(u, id)
    \/ \E u \in Users, id \in 1..MaxChats : FailReset(u, id)
    \/ \E c \in Contents \cup {""} : TypeMessage(Sender, c)
    \/ HandleSendMessage(Sender)
    \/ SendMessageCreated(Sender)
    \/ SendChatUpdated(Sender)
    \/ SendNotified(Sender)
    \/ SendFailed(Sender)

SpecSend == MInit /\ [][SendNext]_vars

\* one user sends; the other opens the conversation; both message streams
\* deliver and the read-marking writes complete in any order
OpenNext ==
    \/ ChatsDeliver(Recipient)
    \/ \E k \in 1..MaxChats : HandleChatSelect(Recipient, k)
    \/ \E id \in 1..MaxChats : ApplyReset(Recipient, id)
    \/ \E id \in 1..MaxChats : FailReset(Recipient, id)
    \/ \E u \in Users : MsgDeliver(u)
    \/ \E m \in 1..MaxMsgs : ApplyMsgRead(m)
    \/ \E m \in 1..MaxMsgs : FailMsgRead(m)
    \/ \E c \in {"a", ""} : TypeMessage(Sender, c)
    \/ HandleSendMessage(Sender)
    \/ SendMessageCreated(Sender)
    \/ SendChatUpdated(Sender)
    \/ SendNotified(Sender)
    \/ SendFailed(Sender)

SpecOpen == MInit /\ [][OpenNext]_vars

(***************************************************************************)
(* C4: in a two-participant conversation whose recipient counter is 0 in   *)
(* the backend, a send whose summary write is applied sets lastMessage to  *)
(* the sent content and lastMessageSenderId to the sender, leaves the      *)
(* recipient's counter at exactly 1 and does not change the sender's       *)
(* counter.                                                                *)
(***************************************************************************)
C4_SendLeavesCounterAtOne ==
    (/\ clast.op = "chatUpdated"
     /\ Len(chatsDb[clast.id].participants) = 2
     /\ clast.before[OtherParticipant(chatsDb[clast.id].participants, clast.u)] = 0)
    => LET c == chatsDb[clast.id]
           receiverId == OtherParticipant(c.participants, clast.u)
       IN  /\ c.lastMessage = op[clast.u].content
           /\ c.lastMessageSenderId = clast.u
           /\ c.unreadCount[receiverId] = 1
           /\ c.unreadCount[clast.u] = clast.before[clast.u]

(***************************************************************************)
(* C5: once the reset write of a user who opened a conversation is         *)
(* applied, that user's counter of the conversation is 0 in the backend,   *)
(* whatever read flags were flipped meanwhile, and every other             *)
(* participant's counter is what it was before the write.                  *)
(***************************************************************************)
C5_OpenResetsOwnCounter ==
    clast.op = "applyReset" =>
        /\ chatsDb[clast.id].unreadCount[clast.u] = 0
        /\ \A v \in Users \ {clast.u} :
               chatsDb[clast.id].unreadCount[v] = clast.before[v]

\* the reset of a positive counter was applied while one message of the
\* conversation had its read flag flipped and another had not
C5_Witness ==
    /\ clast.op = "applyReset" /\ clast.before[clast.u] > 0
    /\ \E m1, m2 \in 1..Len(msgsDb) :
        /\ msgsDb[m1].chatId = clast.id /\ msgsDb[m1].receiverId = clast.u
        /\ msgsDb[m2].chatId = clast.id /\ msgsDb[m2].receiverId = clast.u
        /\ msgsDb[m1].read /\ ~msgsDb[m2].read

(***************************************************************************)
(* C6: a createNewChat whose create succeeds stores exactly one new        *)
(* conversation: its participants are the caller followed by the selected  *)
(* users, every counter is 0, lastMessage and lastMessageSenderId are      *)
(* empty, and it becomes the caller's selected conversation.               *)
(***************************************************************************)
C6_CreateStoresOneFreshChat ==
    [][\A u \in Users :
          (op[u].pc = "new2" /\ clast'.op = "newCreated" /\ clast'.u = u) =>
              /\ Len(chatsDb') = Len(chatsDb) + 1
              /\ SubSeq(chatsDb', 1, Len(chatsDb)) = chatsDb
              /\ LET c == chatsDb'[Len(chatsDb')] IN
                  /\ c.participants = op[u].participants
                  /\ \A v \in Users : c.unreadCount[v] = 0
                  /\ c.lastMessage = "" /\ c.lastMessageSenderId = ""
              /\ selectedChat'[u].id = Len(chatsDb')
              /\ selectedChat'[u].participants = op[u].participants]_vars

\* a user with no conversation for the pair created one and has it selected
C6_Witness ==
    /\ clast.op = "newCreated" /\ ~raced /\ Len(chatsDb) = 1
    /\ Len(clast.parts) = 2 /\ clast.parts[1] = clast.u
    /\ selectedChat[clast.u].id = 1

(***************************************************************************)
(* C7: when no two createNewChat calls overlap, a call by a user whose     *)
(* earlier call created a conversation for the same participant list       *)
(* selects that conversation (same id) and stores no new document.         *)
(***************************************************************************)
C7_SecondCallSelectsSame ==
    (/\ ~raced
     /\ clast.op \in {"newExisting", "newCreated"}
     /\ clast.n # 0
     /\ clast.parts = chatsDb[clast.n].participants)
    => /\ clast.op = "newExisting"
       /\ clast.id = clast.n
       /\ selectedChat[clast.u].id = clast.n
       /\ Len(chatsDb) = 1

\* the second call of the creator found the conversation of the first call
C7_Witness ==
    /\ ~raced /\ clast.op = "newExisting" /\ clast.n = 1 /\ clast.id = 1
    /\ clast.parts = chatsDb[1].participants

(***************************************************************************)
(* C8: a createNewChat call whose existence check found nothing can always *)
(* complete its create, whatever documents were stored meanwhile; two      *)
(* overlapping calls for the same pair reach a backend with two documents  *)
(* of the same participant set.                                            *)
(***************************************************************************)
C8_CreateNeverBlocked ==
    \A u \in Users :
        (op[u].pc = "new2" /\ Len(chatsDb) < MaxChats) => ENABLED NewChatCreated(u)

\* both checks completed before either create, and two documents of the
\* same participant set are stored
C8_Witness ==
    /\ raced /\ Len(chatsDb) = 2
    /\ chatsDb[1].participants # chatsDb[2].participants
    /\ SameSet(chatsDb[1].participants, chatsDb[2].participants)
    /\ clast.op = "newCreated" /\ clast.id = 2

(***************************************************************************)
(* C10: a delivery of the message stream of the open conversation issues a *)
(* read-marking write for exactly the delivered messages whose receiver is *)
(* the current user and whose read flag is false.                          *)
(***************************************************************************)
C10_DeliveryMarksOwnUnread ==
    clast.op = "msgDeliver" =>
        LET u == clast.u
            own == {m \in 1..Len(msgsDb) :
                       /\ msgsDb[m].chatId = selectedChat[u].id
                       /\ msgsDb[m].receiverId = u
                       /\ ~msgsDb[m].read}
        IN  /\ clast.set = own
            /\ own \subseteq pendMsgRead
            /\ Len(messages[u]) =
                   Cardinality({m \in 1..Len(msgsDb) :
                                   msgsDb[m].chatId = selectedChat[u].id})

\* a delivery held one message already read and one unread for the user:
\* a write was issued for the second only
C10_Witness ==
    /\ clast.op = "msgDeliver" /\ clast.u = Recipient
    /\ Len(messages[Recipient]) = 2
    /\ Cardinality(clast.set) = 1
    /\ \E m \in 1..Len(msgsDb) : msgsDb[m].read /\ m \notin clast.set

(***************************************************************************)
(* C11: a step that answers a per-message read-marking write leaves every  *)
(* conversation document as it was, and a user's positive unread counter   *)
(* becomes 0 only in the step that applies that user's reset write of the  *)
(* open-conversation action.                                               *)
(***************************************************************************)
C11_ReadMarkingKeepsCounters ==
    [][/\ (pendMsgRead' # pendMsgRead /\ pendMsgRead' \subseteq pendMsgRead)
              => chatsDb' = chatsDb
       /\ \A id \in 1..Len(chatsDb), u \in Users :
              (chatsDb[id].unreadCount[u] > 0 /\ chatsDb'[id].unreadCount[u] = 0)
                  => (<<u, id>> \in pendReset /\ <<u, id>> \notin pendReset')]_vars

\* the recipient opened the conversation while its counter was 0; a message
\* arrived afterwards and was marked read; the counter stays incremented
C11_Witness ==
    /\ selectedChat[Recipient].id = 1
    /\ selectedChat[Recipient].unreadCount[Recipient] = 0
    /\ pendReset = {} /\ pendMsgRead = {}
    /\ Len(msgsDb) >= 1
    /\ \A m \in 1..Len(msgsDb) : msgsDb[m].receiverId = Recipient /\ msgsDb[m].read
    /\ chatsDb[1].unreadCount[Recipient] > 0

(***************************************************************************)
(* The call handlers of the messages page (initiateCall, endCall, the      *)
(* toggles and the call timer), for the client Sender                      *)
(***************************************************************************)
CallTypes == {"voice", "video"}

\* all variables but those the call handlers write
notK == <<nvars, dvars, chatsDb, chatOrder, selectedChat, chats, messages, msgFresh,
          newMessage, op, pendReset, pendMsgRead, raced, firstId, clast, lvars, ivars, tvars,
          svars, wvars>>

\* the callState initiateCall sets before its write
CallStarted(type) ==
    [isActive |-> TRUE, type |-> type, isMuted |-> FALSE,
     isVideoEnabled |-> (type = "video"), duration |-> 0]

\* the state after Sender selected conversation 1 in its list with the other
\* participant resolved (selectedChat and selectedUser are set)
KInit ==
    /\ user = Me /\ ndb = <<>> /\ notifications = <<>> /\ pendRead = {}
    /\ pendAdd = {} /\ toasted = {} /\ ma = MaNone /\ nlast = NoStep
    /\ DIdle
    /\ KIdle /\ IIdle /\ TIdle /\ WIdle
    /\ loading = FALSE /\ chatUsers = {Recipient} /\ sub = "attached"
    /\ cb = [d \in Deliveries |->
                IF d = "first"
                THEN [NoRun EXCEPT !.pc = "done", !.usersData = {Recipient},
                                   !.issued = <<Recipient>>,
                                   !.outcomes = {<<Recipient, "found">>}]
                ELSE NoRun]
    /\ selectedUser = [u \in Users |-> IF u = Sender THEN Recipient ELSE NoUser]
    /\ chatsDb = <<NewChatDoc(<<Sender, Recipient>>)>>
    /\ chatOrder = <<1>> /\ msgsDb = <<>>
    /\ selectedChat = [u \in Users |-> IF u = Sender THEN ChatSnap(1) ELSE NoChat]
    /\ chats = [u \in Users |-> IF u = Sender THEN <<ChatSnap(1)>> ELSE <<>>]
    /\ messages = [u \in Users |-> <<>>]
    /\ msgFresh = [u \in Users |-> FALSE]
    /\ newMessage = [u \in Users |-> ""]
    /\ op = [u \in Users |-> Idle]
    /\ pendReset = {} /\ pendMsgRead = {}
    /\ raced = FALSE
    /\ firstId = [u \in Users |-> IF u = Sender THEN 1 ELSE 0]
    /\ clast = NoCStep

\* initiateCall(type), up to its await: setCallState(active) and then
\* addDoc(collection 'messages', callMessage) issued.  The call buttons are
\* covered by the full-screen overlay while a call is active.
InitiateCall(type) ==
    /\ selectedUser[Sender] # NoUser
    /\ selectedChat[Sender] # NoChat
    /\ ~callState.isActive
    /\ callId < MaxCalls
    /\ callId' = callId + 1
    /\ callState' = CallStarted(type)
    /\ callWrites' = Append(callWrites,
                        [call |-> callId + 1,
                         type |-> type, chatId |-> selectedChat[Sender].id,
                         receiverId |-> selectedUser[Sender],
                         before |-> callState])
    /\ klast' = NoKStep
    /\ UNCHANGED <<callTimers, msgsDb>>
    /\ UNCHANGED notK

\* the call message addDoc resolves: setTimeout(..., 3000) is set
CallMessageCreated(i) ==
    /\ i \in 1..Len(callWrites)
    /\ Len(msgsDb) < MaxMsgs
    /\ msgsDb' = Append(msgsDb,
                    [chatId |-> callWrites[i].chatId, senderId |-> Sender,
                     receiverId |-> callWrites[i].receiverId,
                     content |-> callWrites[i].type, read |-> FALSE])
    /\ callWrites' = SubSeq(callWrites, 1, i - 1) \o SubSeq(callWrites, i + 1, Len(callWrites))
    /\ callTimers' = callTimers \cup {callWrites[i].call}
    /\ klast' = [NoKStep EXCEPT !.op = "callCreated"]
    /\ UNCHANGED <<callState, callId>>
    /\ UNCHANGED notK

\* the call message addDoc rejects: the catch block logs and toasts; the
\* callState set before the write is left as it is
CallMessageFailed(i) ==
    /\ i \in 1..Len(callWrites)
    /\ callWrites' = SubSeq(callWrites, 1, i - 1) \o SubSeq(callWrites, i + 1, Len(callWrites))
    /\ klast' = [op |-> "callFailed", before |-> callWrites[i].before,
                 inflight |-> Len(callWrites) + Cardinality(callTimers)]
    /\ UNCHANGED <<callState, callTimers, callId, msgsDb>>
    /\ UNCHANGED notK

\* the timeout fires with Math.random() > 0.3: toast.success only
CallAnswered ==
    /\ \E c \in callTimers : callTimers' = callTimers \ {c}
    /\ klast' = NoKStep
    /\ UNCHANGED <<callState, callWrites, callId, msgsDb>>
    /\ UNCHANGED notK

\* the timeout fires otherwise: toast.info and endCall()
CallNotAnswered ==
    /\ \E c \in callTimers : callTimers' = callTimers \ {c}
    /\ callState' = CallIdle
    /\ klast' = NoKStep
    /\ UNCHANGED <<callWrites, callId, msgsDb>>
    /\ UNCHANGED notK

\* endCall() from the overlay's button
EndCall ==
    /\ callState.isActive
    /\ callState' = CallIdle
    /\ klast' = NoKStep
    /\ UNCHANGED <<callWrites, callTimers, callId, msgsDb>>
    /\ UNCHANGED notK

\* toggleMute() from the overlay
ToggleMute ==
    /\ callState.isActive
    /\ callState' = [callState EXCEPT !.isMuted = ~@]
    /\ klast' = NoKStep
    /\ UNCHANGED <<callWrites, callTimers, callId, msgsDb>>
    /\ UNCHANGED notK

\* toggleVideo() from the overlay; the button is rendered for video calls
ToggleVideo ==
    /\ callState.isActive /\ callState.type = "video"
    /\ callState' = [callState EXCEPT !.isVideoEnabled = ~@]
    /\ klast' = NoKStep
    /\ UNCHANGED <<callWrites, callTimers, callId, msgsDb>>
    /\ UNCHANGED notK

\* useEffect([callState.isActive, callState.duration]): the effect sets the
\* interval when isActive && duration === 0; after any change of isActive
\* or duration its cleanup clears the interval, and the effect sets a new
\* one only under the same condition
IntervalRunning == callState.isActive /\ callState.duration = 0

\* the interval set by the timer effect while isActive and duration === 0
\* fires; the effect's cleanup clears the interval once duration changed
CallTick ==
    /\ IntervalRunning
    /\ callState' = [callState EXCEPT !.duration = @ + 1]
    /\ klast' = NoKStep
    /\ UNCHANGED <<callWrites, callTimers, callId, msgsDb>>
    /\ UNCHANGED notK

KNext ==
    \/ \E t \in CallTypes : InitiateCall(t)
    \/ \E i \in 1..MaxCalls : CallMessageCreated(i)
    \/ \E i \in 1..MaxCalls : CallMessageFailed(i)
    \/ CallAnswered
    \/ CallNotAnswered
    \/ EndCall
    \/ ToggleMute
    \/ ToggleVideo
    \/ CallTick

SpecCall == KInit /\ [][KNext]_vars

(***************************************************************************)
(* C12: when the write of an operation is rejected, the local view state   *)
(* after the operation equals the local state before the operation was     *)
(* invoked; stated for initiateCall: after its addDoc was rejected, with   *)
(* no other call of the handler in flight, callState is what it was before *)
(* the call.                                                               *)
(***************************************************************************)
C12_RejectedWriteLeavesLocalState ==
    (klast.op = "callFailed" /\ klast.inflight = 1) => callState = klast.before

(***************************************************************************)
(* C13: every rejected write of the messages page is answered by a         *)
(* transient alert to the user: the unread-counter reset, the per-message  *)
(* read marking, send message and create conversation.                     *)
(***************************************************************************)
C13_RejectionsAlerted ==
    [][/\ \A u \in Users, id \in 1..Len(chatsDb) :
              (/\ <<u, id>> \in pendReset /\ <<u, id>> \notin pendReset'
               /\ chatsDb[id].unreadCount[u] > 0 /\ chatsDb'[id].unreadCount[u] > 0)
                  => ResetErrorAlert
       /\ \A m \in 1..Len(msgsDb) :
              (/\ m \in pendMsgRead /\ m \notin pendMsgRead'
               /\ ~msgsDb[m].read /\ ~msgsDb'[m].read)
                  => ReadErrorAlert
       /\ clast'.op \in {"sendFailed", "newFailed"} => clast'.alert]_vars

(***************************************************************************)
(* C14: handleSendMessage writes in the order message, conversation        *)
(* summary, notification: the summary is written only when the message is  *)
(* stored, the notification only when the summary is stored; a rejected    *)
(* write changes nothing in the backend, issues nothing more and leaves    *)
(* the draft.                                                              *)
(***************************************************************************)
C14_SendWritesInOrder ==
    [][/\ clast'.op = "chatUpdated" =>
              /\ \E m \in 1..Len(msgsDb) :
                    /\ msgsDb[m].chatId = clast'.id /\ msgsDb[m].senderId = clast'.u
                    /\ msgsDb[m].content = chatsDb'[clast'.id].lastMessage
              /\ msgsDb' = msgsDb /\ ndb' = ndb
       /\ Len(ndb') > Len(ndb) =>
              /\ chatsDb[clast'.id].lastMessage = op[clast'.u].content
              /\ chatsDb[clast'.id].lastMessageSenderId = clast'.u
              /\ msgsDb' = msgsDb /\ chatsDb' = chatsDb
       /\ Len(msgsDb') > Len(msgsDb) => (chatsDb' = chatsDb /\ ndb' = ndb)
       /\ clast'.op = "sendFailed" =>
              /\ msgsDb' = msgsDb /\ chatsDb' = chatsDb /\ ndb' = ndb
              /\ newMessage' = newMessage
              /\ op'[clast'.u].pc = "idle"]_vars

\* the summary update was rejected: the message stays stored, the summary
\* and the notification were never written, the draft is kept
C14_Witness ==
    /\ clast.op = "sendFailed" /\ clast.u = Sender
    /\ Len(msgsDb) = 1 /\ msgsDb[1].senderId = Sender
    /\ chatsDb[1].lastMessage = "" /\ ndb = <<>>
    /\ newMessage[Sender] = msgsDb[1].content
    /\ op[Sender].pc = "idle"

(***************************************************************************)
(* The chat-list subscription of the messages page: the async snapshot     *)
(* callback with its participant lookups, for the client Me.  dSnap is the *)
(* query result (the participant lists of its documents) and dOut the list *)
(* setChats exposed.                                                       *)
(***************************************************************************)
LookupOutcomes == {"found", "missing", "error"}

\* all variables but those the chat-list callback writes
notL == <<nvars, dA, dB, dSnap, dpc, cvars, kvars, ivars, tvars, svars, wvars>>

\* the ids of s in the order of their first occurrence (a Set's iteration
\* order is its insertion order)
FirstOccurrences(s) ==
    LET F[i \in 0..Len(s)] ==
            IF i = 0 THEN <<>>
            ELSE IF Includes(F[i - 1], s[i]) THEN F[i - 1] ELSE Append(F[i - 1], s[i])
    IN  F[Len(s)]

\* the concatenation of the lists of a list
Flatten(ll) ==
    LET F[i \in 0..Len(ll)] == IF i = 0 THEN <<>> ELSE F[i - 1] \o ll[i]
    IN  F[Len(ll)]

\* userIds: every participantId !== user.uid of uniqueChats, each once
OtherIds(uniqueChats) ==
    FirstOccurrences(SelectSeq(Flatten(uniqueChats), LAMBDA id : id # Me))

\* (mutant) a rejected lookup leaves the loop
LookupErrorStops == FALSE

\* the try/catch is inside the for loop: a rejected getDoc is logged and the
\* loop goes on with the next id
LookupErrorContinues == TRUE

\* (mutant) loading is cleared as soon as the list is exposed
LoadingAtDeliveryEarly(todo) == FALSE

\* loading when the callback reaches its first await, or its end when it
\* has nothing to look up: setLoading(false) is the callback's last statement
LoadingAtDelivery(todo) == IF todo = <<>> THEN FALSE ELSE loading

\* usersData after the lookup of id was answered: an entry only if
\* userDoc.exists()
UsersDataAfter(usersData, id, outcome) ==
    IF outcome = "found" THEN usersData \cup {id} ELSE usersData

LInit ==
    /\ user = Me /\ ndb = <<>> /\ notifications = <<>> /\ pendRead = {}
    /\ pendAdd = {} /\ toasted = {} /\ ma = MaNone /\ nlast = NoStep
    /\ CIdle
    /\ XIdle
    /\ dA = <<>> /\ dB = <<>> /\ dOut = <<>> /\ dpc = "list"
    /\ dSnap \in SnapshotsUpTo(MaxSnap)

\* onSnapshot(chatsQuery) callback, up to its first await or, with nothing
\* to look up, to its end: setChats(uniqueChats), userIds collected, the
\* first getDoc issued
ListDeliver(d) ==
    /\ sub = "attached"
    /\ cb[d].pc = "none"
    /\ d = "second" => cb["first"].pc # "none"
    /\ LET todo == OtherIds(UniqueChats(dSnap)) IN
        /\ dOut' = UniqueChats(dSnap)
        /\ loading' = LoadingAtDelivery(todo)
        /\ IF todo = <<>>
           THEN /\ cb' = [cb EXCEPT ![d] = [NoRun EXCEPT !.pc = "done"]]
                /\ chatUsers' = {}
           ELSE /\ cb' = [cb EXCEPT ![d] = [NoRun EXCEPT !.pc = "lookups", !.todo = todo,
                                                         !.issued = <<todo[1]>>]]
                /\ UNCHANGED chatUsers
    /\ UNCHANGED sub
    /\ UNCHANGED notL

\* the getDoc of the run's current id is answered; the loop issues the next
\* getDoc or, after the last id, setChatUsers(usersData); setLoading(false)
LookupAnswered(d, outcome) ==
    /\ cb[d].pc = "lookups"
    /\ LET id == Head(cb[d].todo)
           rest == Tail(cb[d].todo)
           usersData == UsersDataAfter(cb[d].usersData, id, outcome)
           outcomes == cb[d].outcomes \cup {<<id, outcome>>}
       IN
        IF outcome = "error" /\ ~LookupErrorContinues
        THEN /\ cb' = [cb EXCEPT ![d].pc = "aborted", ![d].outcomes = outcomes]
             /\ UNCHANGED <<loading, chatUsers>>
        ELSE IF rest = <<>>
        THEN /\ cb' = [cb EXCEPT ![d].pc = "done", ![d].todo = rest,
                                 ![d].usersData = usersData, ![d].outcomes = outcomes]
             /\ chatUsers' = usersData
             /\ loading' = FALSE
        ELSE /\ cb' = [cb EXCEPT ![d].todo = rest, ![d].usersData = usersData,
                                 ![d].outcomes = outcomes,
                                 ![d].issued = Append(@, rest[1])]
             /\ UNCHANGED <<loading, chatUsers>>
    /\ UNCHANGED <<dOut, sub>>
    /\ UNCHANGED notL

\* the listener fails (permission denied, missing index): onSnapshot was
\* given no error callback, so the error is logged by the SDK and no
\* further snapshot is delivered
SubscriptionFails ==
    /\ sub = "attached"
    /\ sub' = "failed"
    /\ UNCHANGED <<dOut, loading, chatUsers, cb>>
    /\ UNCHANGED notL

LNext ==
    \/ \E d \in Deliveries : ListDeliver(d)
    \/ \E d \in Deliveries, o \in LookupOutcomes : LookupAnswered(d, o)
    \/ SubscriptionFails

SpecList == LInit /\ [][LNext]_vars

\* the other participants of the exposed conversations
ExposedOthers == UNION {Range(dOut[i]) : i \in 1..Len(dOut)} \ {Me}

(***************************************************************************)
(* C15: whatever subset of the participant lookups fails, a chat-list      *)
(* delivery completes: the list is exposed, no run is abandoned, a run     *)
(* that has not finished has a lookup outstanding, and when it finishes    *)
(* loading is false and the resolved map holds exactly the participants    *)
(* whose lookup found a user; one lookup was issued per distinct other     *)
(* participant.                                                            *)
(***************************************************************************)
C15_DeliverySurvivesLookupFailures ==
    /\ [](\A d \in Deliveries :
            /\ cb[d].pc \in {"none", "lookups", "done"}
            /\ cb[d].pc = "lookups" => cb[d].todo # <<>>
            /\ cb[d].pc # "none" => dOut = UniqueChats(dSnap)
            /\ cb[d].pc = "done" =>
                  /\ NoRepeat(cb[d].issued)
                  /\ Range(cb[d].issued) = ExposedOthers
                  /\ cb[d].usersData =
                        {id \in ExposedOthers : <<id, "found">> \in cb[d].outcomes}
                  /\ \A id \in ExposedOthers :
                        \E o \in LookupOutcomes : <<id, o>> \in cb[d].outcomes)
    /\ [][\A d \in Deliveries :
             (cb[d].pc # "done" /\ cb'[d].pc = "done") =>
                 (~loading' /\ chatUsers' = cb'[d].usersData)]_vars

\* a delivery with two other participants finished although one lookup was
\* rejected: the other participant is resolved, the failed one is absent
C15_Witness ==
    \E d \in Deliveries :
        /\ cb[d].pc = "done" /\ Len(cb[d].issued) = 2
        /\ \E a, b \in ExposedOthers :
              /\ <<a, "error">> \in cb[d].outcomes /\ <<b, "found">> \in cb[d].outcomes
              /\ chatUsers = {b}
        /\ ~loading /\ Len(dOut) >= 1

(***************************************************************************)
(* C20: loading starts true and changes only from true to false, in the    *)
(* step that finishes a chat-list callback run (all lookups answered); it  *)
(* is true as long as no run has finished, also after the listener failed; *)
(* the failure of the listener changes no view state.                      *)
(***************************************************************************)
C20_LoadingUntilDeliveryProcessed ==
    /\ [][/\ loading' # loading =>
                 /\ loading /\ ~loading'
                 /\ \E d \in Deliveries : cb[d].pc # "done" /\ cb'[d].pc = "done"
          /\ (sub = "attached" /\ sub' = "failed") =>
                 (loading' = loading /\ chatUsers' = chatUsers /\ dOut' = dOut /\ cb' = cb)]_vars
    /\ []((\A d \in Deliveries : cb[d].pc # "done") => loading)

\* the listener failed before any delivery: the view is still loading
C20_Witness ==
    /\ sub = "failed" /\ loading
    /\ \A d \in Deliveries : cb[d].pc = "none"

(***************************************************************************)
(* C16: markAllAsRead issues a write for exactly the notifications that    *)
(* are unread in the local snapshot; the rejection of one of its writes    *)
(* changes no notification in the backend (the applied writes stay         *)
(* applied, the rejected one stays unread), answers that write only and    *)
(* issues no new write.                                                    *)
(***************************************************************************)
C16_MarkAllPartialFailure ==
    [][/\ LET new == pendRead' \ pendRead IN
              (\E w \in new : w[1] = "all") =>
                  /\ \A w \in new : w[1] = "all"
                  /\ {w[2] : w \in new} =
                        {notifications[k].id :
                            k \in {j \in 1..Len(notifications) : ~notifications[j].read}}
       /\ (ma.st = "live" /\ ma'.st = "disturbed" /\ pendRead' # pendRead) =>
              /\ ndb' = ndb
              /\ pendRead' \subseteq pendRead
              /\ Cardinality(pendRead \ pendRead') = 1]_vars

\* of the two writes of one markAllAsRead call one was applied and one was
\* rejected: one notification is read in the backend, the other is not,
\* and no write is in flight
C16_Witness ==
    /\ ma = MaFailed({1, 2}) /\ pendRead = {}
    /\ Len(notifications) = 2
    /\ \A k \in 1..2 : ~notifications[k].read
    /\ Len(ndb) = 2 /\ \A i \in 1..2 : ndb[i].userId = Me
    /\ ndb[1].read # ndb[2].read

(***************************************************************************)
(* The property inquiry form (handleContactSubmit) of the buyer Me         *)
(***************************************************************************)
\* all variables but those handleContactSubmit writes
notI == <<user, notifications, pendRead, pendAdd, toasted, nlast, dvars,
          selectedChat, chats, messages, msgFresh, newMessage, op, pendReset,
          pendMsgRead, raced, firstId, clast, kvars, lvars, tvars, svars, wvars>>

\* the payload handleContactSubmit passes to addNotification
InquiryPayload == [type |-> "property", read |-> FALSE]

\* the notification handleContactSubmit writes with addDoc for the seller
SellerNotificationDoc(sellerId) ==
    [userId |-> sellerId, type |-> "property", read |-> FALSE]

\* chatData of handleContactSubmit; for a seller who is the buyer the
\* second computed key overwrites the first
InquiryChatDoc(buyer, sellerId, message) ==
    [participants |-> <<buyer, sellerId>>, lastMessage |-> message,
     lastMessageSenderId |-> buyer,
     unreadCount |-> [u \in Users |-> IF u = sellerId THEN 1 ELSE 0]]

\* handleContactSubmit, up to its first await: setSendingMessage(true) and
\* addDoc(collection 'inquiries') issued
ContactSubmit(sellerId) ==
    /\ user # NoUser
    /\ inq.pc = "idle"
    /\ inq' = [pc |-> "inq1", seller |-> sellerId, addOk |-> FALSE, last |-> "none"]
    /\ UNCHANGED <<inqDb, propCount, ndb, ma, chatsDb, chatOrder, msgsDb>>
    /\ UNCHANGED notI

\* the inquiry addDoc resolves; updateDoc(properties/id) is issued
InquiryCreated ==
    /\ inq.pc = "inq1"
    /\ Len(inqDb) < MaxInquiries
    /\ inqDb' = Append(inqDb, [buyerId |-> user, sellerId |-> inq.seller])
    /\ inq' = [inq EXCEPT !.pc = "inq2"]
    /\ UNCHANGED <<propCount, ndb, ma, chatsDb, chatOrder, msgsDb>>
    /\ UNCHANGED notI

\* the property update resolves: inquiries = property.inquiries + 1 from the
\* property as loaded; addNotification is called and issues its addDoc
InquiryCounted ==
    /\ inq.pc = "inq2"
    /\ propCount' = 0 + 1
    /\ inq' = [inq EXCEPT !.pc = "inq3"]
    /\ UNCHANGED <<inqDb, ndb, ma, chatsDb, chatOrder, msgsDb>>
    /\ UNCHANGED notI

\* the addDoc of addNotification resolves and addNotification returns; the
\* seller's notification addDoc is issued
InquiryAddNotificationOk ==
    /\ inq.pc = "inq3"
    /\ Len(ndb) < MaxNotifs
    /\ LET doc == NewNotificationDoc(user, InquiryPayload) IN
        /\ ndb' = Append(ndb, doc)
        /\ ma' = MaAfterArrival(doc)
    /\ inq' = [inq EXCEPT !.pc = "inq4", !.addOk = TRUE]
    /\ UNCHANGED <<inqDb, propCount, chatsDb, chatOrder, msgsDb>>
    /\ UNCHANGED notI

\* the addDoc of addNotification rejects: its catch block logs and
\* addNotification returns normally; the seller's notification addDoc is
\* issued
InquiryAddNotificationFailed ==
    /\ inq.pc = "inq3"
    /\ inq' = [inq EXCEPT !.pc = "inq4", !.addOk = FALSE]
    /\ UNCHANGED <<inqDb, propCount, ndb, ma, chatsDb, chatOrder, msgsDb>>
    /\ UNCHANGED notI

\* the seller's notification addDoc resolves; the chat addDoc is issued
InquirySellerNotified ==
    /\ inq.pc = "inq4"
    /\ Len(ndb) < MaxNotifs
    /\ ndb' = Append(ndb, SellerNotificationDoc(inq.seller))
    /\ ma' = MaAfterArrival(SellerNotificationDoc(inq.seller))
    /\ inq' = [inq EXCEPT !.pc = "inq5"]
    /\ UNCHANGED <<inqDb, propCount, chatsDb, chatOrder, msgsDb>>
    /\ UNCHANGED notI

\* the chat addDoc resolves; the message addDoc is issued
InquiryChatCreated ==
    /\ inq.pc = "inq5"
    /\ Len(chatsDb) < MaxChats
    /\ chatsDb' = Append(chatsDb, InquiryChatDoc(user, inq.seller, "a"))
    /\ chatOrder' = <<Len(chatsDb) + 1>> \o chatOrder
    /\ inq' = [inq EXCEPT !.pc = "inq6"]
    /\ UNCHANGED <<inqDb, propCount, ndb, ma, msgsDb>>
    /\ UNCHANGED notI

\* the message addDoc resolves: toast.success, the form is cleared and
\* closed, finally setSendingMessage(false)
InquiryMessageCreated ==
    /\ inq.pc = "inq6"
    /\ Len(msgsDb) < MaxMsgs
    /\ msgsDb' = Append(msgsDb,
                    [chatId |-> Len(chatsDb), senderId |-> user,
                     receiverId |-> inq.seller, content |-> "a", read |-> FALSE])
    /\ inq' = [inq EXCEPT !.pc = "idle", !.last = "done"]
    /\ UNCHANGED <<inqDb, propCount, ndb, ma, chatsDb, chatOrder>>
    /\ UNCHANGED notI

\* one of the handler's own writes rejects: the catch block logs and
\* toasts, finally setSendingMessage(false).  addNotification never throws.
InquiryFailed ==
    /\ inq.pc \in {"inq1", "inq2", "inq4", "inq5", "inq6"}
    /\ inq' = [inq EXCEPT !.pc = "idle", !.last = "failed"]
    /\ UNCHANGED <<inqDb, propCount, ndb, ma, chatsDb, chatOrder, msgsDb>>
    /\ UNCHANGED notI

\* a payload whose caller set read to true
ReadPayload == [type |-> "message", read |-> TRUE]

\* the buyer's page: inquiries on properties of any seller, a call of
\* addNotification with ReadPayload, and the buyer's notification listener
INext ==
    \/ \E sellerId \in Users : ContactSubmit(sellerId)
    \/ InquiryCreated
    \/ InquiryCounted
    \/ InquiryAddNotificationOk
    \/ InquiryAddNotificationFailed
    \/ InquirySellerNotified
    \/ InquiryChatCreated
    \/ InquiryMessageCreated
    \/ InquiryFailed
    \/ AddNotification(ReadPayload)
    \/ \E d \in pendAdd : ApplyAdd(d)
    \/ \E d \in pendAdd : FailAdd(d)
    \/ NotifDeliver

SpecInquiry == NInit /\ [][INext]_vars

\* the step appends exactly one document, owned by the signed-in user and
\* unread, to the notifications collection
AppendsOneUnreadOwn ==
    /\ Len(ndb') = Len(ndb) + 1
    /\ SubSeq(ndb', 1, Len(ndb)) = ndb
    /\ ndb'[Len(ndb')].userId = user
    /\ ~ndb'[Len(ndb')].read

\* C17: a successful addDoc of addNotification stores exactly one new
\* notification, owned by the signed-in user and with read = false whatever
\* the payload's read flag was; a rejected addDoc of addNotification stores
\* nothing and is not surfaced to the caller, so handleContactSubmit goes on
\* to its next write instead of its catch block.
C17_AddNotificationStoresUnread ==
    [][ /\ (pendAdd' # pendAdd /\ ndb' # ndb) => AppendsOneUnreadOwn
        /\ (inq.pc = "inq3" /\ inq'.pc # "inq3" /\ inq'.addOk)
              => AppendsOneUnreadOwn
        /\ (inq.pc = "inq3" /\ inq'.pc # "inq3" /\ ~inq'.addOk)
              => (ndb' = ndb /\ inq'.pc = "inq4" /\ inq'.last = "none")
      ]_vars

\* a payload with read = true was stored unread for the signed-in user, and
\* an inquiry whose addNotification write was rejected ran to its end
C17_Witness ==
    /\ Len(ndb) = 2
    /\ ndb[1] = [userId |-> Me, type |-> "message", read |-> FALSE]
    /\ ndb[2] = SellerNotificationDoc(inq.seller)
    /\ inq.last = "done"
    /\ ~inq.addOk
    /\ Len(msgsDb) = 1

\* C18: after a completed inquiry of buyer Me on a property of another
\* seller, exactly one notification of the inquiry is addressed to the
\* seller and none to the buyer.
C18_InquiryNotifiesSellerOnly ==
    (inq.last = "done" /\ inq.seller # Me /\ inq.addOk /\ Len(inqDb) = 1)
    => /\ Cardinality({i \in 1..Len(ndb) : ndb[i].type = "property"
                                             /\ ndb[i].userId = inq.seller}) = 1
       /\ Cardinality({i \in 1..Len(ndb) : ndb[i].type = "property"
                                             /\ ndb[i].userId = Me}) = 0

(***************************************************************************)
(* The docChanges loop of the notification listener on any delivery        *)
(***************************************************************************)
\* change.type of a Firestore DocumentChange
ChangeTypes == {"added", "modified", "removed"}

\* Notification['type']
Categories == {"message", "property", "transaction", "system"}

\* a document change as far as the loop reads it
Changes == [changeType : ChangeTypes, read : BOOLEAN, type : Categories]

RECURSIVE SeqsUpTo(_, _)
SeqsUpTo(S, n) ==
    IF n = 0 THEN {<<>>}
    ELSE LET shorter == SeqsUpTo(S, n - 1) IN
         shorter \cup {Append(q, x) : q \in {r \in shorter : Len(r) = n - 1}, x \in S}

\* a delivery with any list of changes
TInit ==
    /\ user = Me /\ ndb = <<>> /\ notifications = <<>> /\ pendRead = {}
    /\ pendAdd = {} /\ toasted = {} /\ ma = MaNone /\ nlast = NoStep
    /\ DIdle /\ CIdle /\ KIdle /\ LIdle /\ IIdle /\ SIdle /\ WIdle
    /\ tChanges \in SeqsUpTo(Changes, MaxChanges)
    /\ tOut = <<>>

\* one iteration of snapshot.docChanges().forEach
ToastChange ==
    /\ tChanges # <<>>
    /\ tOut' = Append(tOut, [change |-> Head(tChanges),
                             toast |-> ShouldToast(Head(tChanges).changeType,
                                                   Head(tChanges))])
    /\ tChanges' = Tail(tChanges)
    /\ UNCHANGED <<nvars, dvars, cvars, kvars, lvars, ivars, svars, wvars>>

TNext == ToastChange

SpecToast == TInit /\ [][TNext]_vars

\* C19: the listener raises a toast for a delivered change exactly when the
\* change is an addition of an unread notification of category "message";
\* never for a modified or removed change, a read notification, or the
\* categories property, transaction and system.
C19_ToastOnlyForAddedUnreadMessage ==
    \A i \in 1..Len(tOut) :
        tOut[i].toast <=> (/\ tOut[i].change.changeType = "added"
                           /\ ~tOut[i].change.read
                           /\ tOut[i].change.type = "message")

\* a delivery whose first change raised a toast and whose second, the same
\* unread message notification reported as modified, raised none
C19_Witness ==
    /\ tChanges = <<>>
    /\ Len(tOut) = 2
    /\ tOut[1].toast
    /\ tOut[1].change = [changeType |-> "added", read |-> FALSE, type |-> "message"]
    /\ ~tOut[2].toast
    /\ tOut[2].change = [changeType |-> "modified", read |-> FALSE, type |-> "message"]

(***************************************************************************)
(* Frame conditions of the messaging writes                                *)
(***************************************************************************)
\* C21: no step of the messages page removes a conversation document or
\* changes the participants of an existing one: the summary write of a send
\* and the reset write of an open touch only the last-message fields and
\* unreadCount entries.
C21_ParticipantsImmutable ==
    [][ /\ Len(chatsDb') >= Len(chatsDb)
        /\ \A i \in 1..Len(chatsDb) :
              chatsDb'[i].participants = chatsDb[i].participants
      ]_vars

\* the conversation was written by a send's summary update and then by the
\* recipient's reset, and still has its two participants
C21_Witness ==
    /\ clast.op = "applyReset" /\ clast.u = Recipient /\ clast.id = 1
    /\ clast.before[Recipient] = 1
    /\ chatsDb[1].lastMessage = "a"
    /\ chatsDb[1].lastMessageSenderId = Sender
    /\ chatsDb[1].unreadCount[Recipient] = 0
    /\ chatsDb[1].participants = <<Sender, Recipient>>

\* C22: a message is written at most once after its creation: a delivery
\* never issues a read-marking write for a message that an earlier delivery
\* to the same client already showed as unread and addressed to it (that
\* delivery issued the write), and no step changes a message's content,
\* sender, recipient or conversation.
C22_MessageMutatedOnce ==
    [][ /\ \A m \in pendMsgRead' \ pendMsgRead :
              m \notin UnreadMessages(Recipient, messages[Recipient])
        /\ Len(msgsDb') >= Len(msgsDb)
        /\ \A i \in 1..Len(msgsDb) :
              /\ msgsDb'[i].content = msgsDb[i].content
              /\ msgsDb'[i].senderId = msgsDb[i].senderId
              /\ msgsDb'[i].receiverId = msgsDb[i].receiverId
              /\ msgsDb'[i].chatId = msgsDb[i].chatId
      ]_vars

\* C23: after Sender completed k = MaxMsgs sends (all three writes of each
\* applied) from the conversation view it held before the first send, with
\* Recipient never opening the conversation, Recipient's unread counter is
\* its value before the first send (0) plus k.
C23_CounterCountsSends ==
    (/\ Len(msgsDb) = MaxMsgs
     /\ \A i \in 1..Len(msgsDb) : msgsDb[i].senderId = Sender /\ msgsDb[i].chatId = 1
     /\ Cardinality({i \in 1..Len(ndb) : ndb[i].type = "message"
                                          /\ ndb[i].userId = Recipient}) = MaxMsgs
     /\ op[Sender].pc = "idle"
     /\ selectedChat[Sender] = [id |-> 1, participants |-> <<Sender, Recipient>>,
                                unreadCount |-> [u \in Users |-> 0]]
     /\ selectedChat[Recipient] = NoChat
     /\ pendReset = {})
    => chatsDb[1].unreadCount[Recipient] = 0 + MaxMsgs

\* C24: with no operation in flight, the backend holds no two conversation
\* documents with the same set of participants, also when the property
\* inquiry form made the first contact.
C24_OneConversationPerPair ==
    (inq.pc = "idle" /\ pendAdd = {})
    => \A i, j \in 1..Len(chatsDb) :
          SameSet(chatsDb[i].participants, chatsDb[j].participants) => i = j

(***************************************************************************)
(* The chat-list listener while the backend's list changes                 *)
(***************************************************************************)
\* the listener attached to a list of at most one conversation
LRInit ==
    /\ user = Me /\ ndb = <<>> /\ notifications = <<>> /\ pendRead = {}
    /\ pendAdd = {} /\ toasted = {} /\ ma = MaNone /\ nlast = NoStep
    /\ CIdle
    /\ XIdle
    /\ dA = <<>> /\ dB = <<>> /\ dOut = <<>> /\ dpc = "list"
    /\ dSnap \in SnapshotsUpTo(1)

\* a conversation with participants l is created or gets a new message
\* after the first delivery: the query result now starts with it (orderBy
\* lastMessageAt desc) and the listener will deliver it
ListGrows(l) ==
    /\ cb["first"].pc # "none" /\ cb["second"].pc = "none"
    /\ Len(dSnap) < MaxSnap
    /\ dSnap' = <<l>> \o dSnap
    /\ UNCHANGED <<nvars, dA, dB, dOut, dpc, cvars, kvars, lvars, ivars, tvars, svars, wvars>>

\* the cleanup of useEffect([user]): unsubscribe().  No further snapshot is
\* delivered; a callback run that is awaiting a getDoc is not cancelled.
Unsubscribe ==
    /\ sub = "attached"
    /\ sub' = "torn"
    /\ UNCHANGED <<dOut, loading, chatUsers, cb>>
    /\ UNCHANGED notL

LRNext ==
    \/ \E d \in Deliveries : ListDeliver(d)
    \/ \E d \in Deliveries, o \in LookupOutcomes : LookupAnswered(d, o)
    \/ \E l \in MyLists : ListGrows(l)
    \/ Unsubscribe

SpecListRace == LRInit /\ [][LRNext]_vars

\* the most recent delivery so far
LastDelivery == IF cb["second"].pc # "none" THEN "second" ELSE "first"

\* C25: whenever every started callback run has finished, the resolved map
\* is the one the run of the most recent delivery built, whatever the order
\* in which the runs finished; stated for conversations without a repeated
\* participant and runs whose lookups all found their user.
C25_MapFollowsLastDelivery ==
    (/\ cb["first"].pc = "done"
     /\ cb["second"].pc \in {"none", "done"}
     /\ \A i \in 1..Len(dSnap) : NoRepeat(dSnap[i])
     /\ \A d \in Deliveries : \A o \in cb[d].outcomes : o[2] = "found")
    => chatUsers = cb[LastDelivery].usersData

(***************************************************************************)
(* The duplicate tests and membership                                      *)
(***************************************************************************)
\* C26: the duplicate tests never merge conversations of different
\* membership, on every participant list the code base stores: every
\* participant set of a delivered snapshot is still present in the exposed
\* list, and a document createNewChat reuses has exactly the participant
\* set of the requested conversation.
C26_DedupKeepsMembership ==
    /\ dpc = "exposed" =>
          \A i \in 1..Len(dSnap) : \E k \in 1..Len(dOut) : SameSet(dOut[k], dSnap[i])
    /\ dpc = "found" =>
          \A i \in dOut[1] : SameSet(dSnap[i], dA)

(***************************************************************************)
(* The selected conversation and the selected user of the messages page,   *)
(* for the client Me                                                       *)
(***************************************************************************)
\* the users Me can pick in the new-chat modal
Contacts == AllUsers \ {Me}

\* the state after Me's chat list with one conversation, [Me, u2], was
\* delivered and processed; the lookup of u2 found the user or did not
SelInit ==
    /\ user = Me /\ ndb = <<>> /\ notifications = <<>> /\ pendRead = {}
    /\ pendAdd = {} /\ toasted = {} /\ ma = MaNone /\ nlast = NoStep
    /\ DIdle
    /\ KIdle /\ IIdle /\ TIdle /\ SIdle /\ WIdle
    /\ chatsDb = <<NewChatDoc(<<Me, "u2">>)>>
    /\ chatOrder = <<1>> /\ msgsDb = <<>>
    /\ selectedChat = [u \in Users |-> NoChat]
    /\ chats = [u \in Users |-> IF u = Me THEN <<ChatSnap(1)>> ELSE <<>>]
    /\ messages = [u \in Users |-> <<>>]
    /\ msgFresh = [u \in Users |-> FALSE]
    /\ newMessage = [u \in Users |-> ""]
    /\ op = [u \in Users |-> Idle]
    /\ pendReset = {} /\ pendMsgRead = {}
    /\ raced = FALSE
    /\ firstId = [u \in Users |-> 0]
    /\ clast = NoCStep
    /\ loading = FALSE /\ sub = "attached"
    /\ \E found \in BOOLEAN :
          /\ chatUsers = IF found THEN {"u2"} ELSE {}
          /\ cb = [d \in Deliveries |->
                      IF d = "first"
                      THEN [NoRun EXCEPT !.pc = "done", !.usersData = chatUsers,
                                         !.issued = <<"u2">>,
                                         !.outcomes = {<<"u2", IF found THEN "found"
                                                                ELSE "missing">>}]
                      ELSE NoRun]

\* Me opens conversations, starts new ones with one contact, and the list
\* listener exposes what was created
SelNext ==
    \/ ChatsDeliver(Me)
    \/ \E k \in 1..MaxChats : HandleChatSelect(Me, k)
    \/ \E v \in Contacts : CreateNewChat(Me, <<v>>)
    \/ NewChatFound(Me)
    \/ NewChatNotFound(Me)
    \/ NewChatCreated(Me)
    \/ NewChatFailed(Me)

SpecSelect == SelInit /\ [][SelNext]_vars

\* C27: whenever a conversation is selected and a selected user is set, the
\* selected user is a participant of the selected conversation other than
\* the current user.
C27_SelectedUserIsParticipant ==
    (selectedChat[Me] # NoChat /\ selectedUser[Me] # NoUser)
    => /\ selectedUser[Me] # Me
       /\ Includes(selectedChat[Me].participants, selectedUser[Me])

(***************************************************************************)
(* The timers of a simulated call                                          *)
(***************************************************************************)
\* C28: a step in which a no-answer timer ends the active call is the timer
\* of that call: the timer that fired was set by the latest initiateCall.
C28_TimerEndsOwnCallOnly ==
    [][ (callState.isActive /\ ~callState'.isActive /\ callTimers' # callTimers)
            => callTimers \ callTimers' = {callId}
      ]_vars

\* the duration a call that is not ended must reach
DurationGoal == 2

\* the interval callback runs as long as its interval is set
KFairness == WF_vars(CallTick)

SpecCallLive == KInit /\ [][KNext]_vars /\ KFairness

\* C30: while a call is active its interval timer is running, no timer is
\* running when no call is active, and an active call is ended or its
\* duration reaches DurationGoal.
C30_DurationAdvances ==
    /\ [](callState.isActive <=> IntervalRunning)
    /\ (callState.isActive ~> (~callState.isActive \/ callState.duration >= DurationGoal))

(***************************************************************************)
(* The transactions page (pages/Transactions.tsx): handleUpdateStatus      *)
(***************************************************************************)
Roles == {"admin", "user"}
TxTypes == {"withdrawal", "payment"}
Statuses == {"completed", "pending", "failed"}

\* the balance of the owner's wallet when the page is mounted
InitialBalance == 10

\* all variables but those of the transactions page
notW == <<nvars, dvars, cvars, kvars, lvars, ivars, tvars, svars>>

\* the page after fetchTransactions: MaxTx pending requests of one owner,
\* request i over the amount i, of any type; the owner's wallet document
\* exists or not
WInit ==
    /\ user = Me /\ ndb = <<>> /\ notifications = <<>> /\ pendRead = {}
    /\ pendAdd = {} /\ toasted = {} /\ ma = MaNone /\ nlast = NoStep
    /\ DIdle /\ CIdle /\ KIdle /\ LIdle /\ IIdle /\ TIdle /\ SIdle
    /\ role \in Roles
    /\ \E types \in [1..MaxTx -> TxTypes] :
          txs = [i \in 1..MaxTx |->
                    [type |-> types[i], amount |-> i, status |-> "pending"]]
    /\ transactions = txs
    /\ \E e \in BOOLEAN : wallet = [exists |-> e, balance |-> InitialBalance]
    /\ upd = NoUpdate
    /\ debits = [i \in 1..MaxTx |-> 0]

\* the end of the try block: setTransactions(map ...), toast.success, and
\* the finally block
UpdateDone ==
    /\ transactions' = [transactions EXCEPT ![upd.id].status = upd.status]
    /\ upd' = [NoUpdate EXCEPT !.n = upd.n]

\* handleUpdateStatus(transaction, status) for the id-th entry of the local
\* list, up to its first await: if (!user || user.role !== 'admin') return;
\* else the status updateDoc is issued
HandleUpdateStatus(id, status) ==
    /\ upd.pc = "idle"
    /\ id \in 1..Len(transactions)
    /\ upd.n < MaxUpdates
    /\ IF role # "admin"
       THEN UNCHANGED upd
       ELSE upd' = [pc |-> "w1", id |-> id, status |-> status, read |-> 0,
                    n |-> upd.n + 1]
    /\ UNCHANGED <<role, txs, transactions, wallet, debits>>
    /\ UNCHANGED notW

\* the status updateDoc resolves; for a withdrawal set to completed
\* getDoc(wallets/<owner>) is issued, otherwise the handler ends
StatusWritten ==
    /\ upd.pc = "w1"
    /\ txs' = [txs EXCEPT ![upd.id].status = upd.status]
    /\ IF transactions[upd.id].type = "withdrawal" /\ upd.status = "completed"
       THEN /\ upd' = [upd EXCEPT !.pc = "w2"]
            /\ UNCHANGED transactions
       ELSE UpdateDone
    /\ UNCHANGED <<role, wallet, debits>>
    /\ UNCHANGED notW

\* getDoc resolves: if (walletDoc.exists()) the balance updateDoc is issued
\* with currentBalance - transaction.amount, otherwise the handler ends
WalletRead ==
    /\ upd.pc = "w2"
    /\ IF wallet.exists
       THEN /\ upd' = [upd EXCEPT !.pc = "w3", !.read = wallet.balance]
            /\ UNCHANGED transactions
       ELSE UpdateDone
    /\ UNCHANGED <<role, txs, wallet, debits>>
    /\ UNCHANGED notW

\* the balance updateDoc resolves and the handler ends
WalletWritten ==
    /\ upd.pc = "w3"
    /\ wallet' = [wallet EXCEPT !.balance = upd.read - transactions[upd.id].amount]
    /\ debits' = [debits EXCEPT ![upd.id] = @ + 1]
    /\ UpdateDone
    /\ UNCHANGED <<role, txs>>
    /\ UNCHANGED notW

\* one of the awaited calls rejects: the catch block logs and toasts, then
\* the finally block
UpdateFailed ==
    /\ upd.pc \in {"w1", "w2", "w3"}
    /\ upd' = [NoUpdate EXCEPT !.n = upd.n]
    /\ UNCHANGED <<role, txs, transactions, wallet, debits>>
    /\ UNCHANGED notW

WNext ==
    \/ \E id \in 1..MaxTx, st \in Statuses : HandleUpdateStatus(id, st)
    \/ StatusWritten
    \/ WalletRead
    \/ WalletWritten
    \/ UpdateFailed

SpecTx == WInit /\ [][WNext]_vars

\* C29: for a user who is not an admin no step changes a request, the
\* wallet or the local list; for an admin the amount of a withdrawal is
\* subtracted from the owner's balance at most once, whatever sequence of
\* status updates is made.
C29_WithdrawalDebitedOnce ==
    /\ [][role # "admin" =>
             (txs' = txs /\ wallet' = wallet /\ transactions' = transactions)]_vars
    /\ [](\A id \in 1..Len(debits) : debits[id] <= 1)

=============================================================================
